---------------------------- MODULE Spec2Model ----------------------------
(***************************************************************************)
(* Model of the vpc-eni CNI plugin for Windows: the ADD and DEL command    *)
(* handlers (Plugin.Add, Plugin.Del), the two network builders found in    *)
(* the sources (NetBuilder and netBuilder), the hnswrapper layer and the   *)
(* Host Network Service (HNS) that holds all durable state.                *)
(*                                                                         *)
(* Strings are sequences of tokens, so that prefix tests, trimming,        *)
(* separator stripping and formatting are computed, not assumed.           *)
(***************************************************************************)
EXTENDS Naturals, Sequences, FiniteSets, TLC

----------------------------------------------------------------------------
(* Strings and formats.                                                    *)

Nil == "nil"

EmptyStr == << >>

HasPrefix(s, p) == Len(s) >= Len(p) /\ SubSeq(s, 1, Len(p)) = p

TrimPrefix(s, p) == IF HasPrefix(s, p) THEN SubSeq(s, Len(p) + 1, Len(s)) ELSE s

\* strings.Replace(s, old, "", -1) for a one-token old.
StripToken(s, old) == SelectSeq(s, LAMBDA t : t # old)

RECURSIVE ReplaceToken(_, _, _)
ReplaceToken(s, old, new) ==
    IF s = << >> THEN << >>
    ELSE <<IF Head(s) = old THEN new ELSE Head(s)>> \o ReplaceToken(Tail(s), old, new)

hnsNetworkNameFormat(id) == <<"task-br-">> \o id

hnsEndpointNameFormat(networkName, identifier) == networkName \o <<"-ep-">> \o identifier

vNICNameFormat(linkName) == <<"vEthernet (">> \o linkName \o <<")">>

containerPrefix == <<"container:">>

noneNetNS == <<"none">>

\* NSType
infraContainerNS == "infraContainerNS"
nonInfraContainerNS == "nonInfraContainerNS"
hcsNamespace == "hcsNamespace"

\* net.ParseMAC: groups separated by ":" or "-"; the result is the byte groups.
MacSeparators == {":", "-"}

ParseMACok(s) ==
    /\ Len(s) >= 3
    /\ Len(s) % 2 = 1
    /\ \A i \in 1..Len(s) : (i % 2 = 0) <=> (s[i] \in MacSeparators)
    /\ \A i \in 1..Len(s) : (i % 2 = 0) => s[i] = s[2]

ParseMAC(s) == IF ParseMACok(s) THEN SelectSeq(s, LAMBDA t : t \notin MacSeparators) ELSE << >>

\* net.HardwareAddr.String(): the byte groups joined by ":".
RECURSIVE HardwareAddrString(_)
HardwareAddrString(hw) ==
    IF hw = << >> THEN << >>
    ELSE IF Len(hw) = 1 THEN hw
    ELSE <<Head(hw), ":">> \o HardwareAddrString(Tail(hw))

\* vpc.GetIPAddressFromString: "a.b.c.d/len" to an address with its mask.
NilIP == [IP |-> "", Mask |-> ""]

GetIPAddressFromString(s) ==
    IF Len(s) = 3 /\ s[2] = "/" THEN [IP |-> s[1], Mask |-> s[3]] ELSE NilIP

----------------------------------------------------------------------------
(* The Host Network Service, as the calls of hcsshim and hcn the wrapper   *)
(* makes.  A world w holds the service's state and the calls made so far:  *)
(*   networks    the HNS networks [Name, NetworkAdapterName, Gateway]      *)
(*   endpoints   the HNS endpoints [Name, VirtualNetworkName, MacAddress,  *)
(*               IPAddress, GatewayAddress, SharedContainers]; an object's *)
(*               Id is its name                                            *)
(*   nsEndpoints the endpoint ids of each existing HCN namespace           *)
(*   ifaces      the host's vNICs, "up" or "down"                          *)
(*   calls       the calls issued, in order                                *)
(* An environment x gives what one invocation meets: the HNS version, the  *)
(* running containers and the kind of call that fails (at most one).       *)

\* The answer r of a call, with the call and its error added to the calls.
Logged(op, arg, r) == [r EXCEPT !.w.calls = Append(@, <<op, arg, r.err>>)]

HnsFault == "HnsFault"
ErrNotFound == "NotFound"
ErrAlreadyExists == "AlreadyExists"
ErrComputeSystemDoesNotExist == "ErrComputeSystemDoesNotExist"
ErrNamespaceNotFound == "NamespaceNotFound"

NoObject == [Name |-> << >>]

HasNetwork(w, name) == \E n \in w.networks : n.Name = name

TheNetwork(w, name) == CHOOSE n \in w.networks : n.Name = name

HasEndpoint(w, name) == \E e \in w.endpoints : e.Name = name

TheEndpoint(w, name) == CHOOSE e \in w.endpoints : e.Name = name

GetHNSNetworkByName(w, name) ==
    Logged("NetFind", name,
        IF HasNetwork(w, name)
        THEN [w |-> w, err |-> Nil, obj |-> TheNetwork(w, name)]
        ELSE [w |-> w, err |-> ErrNotFound, obj |-> NoObject])

\* HNSNetworkRequest("POST", "", request): a transparent network comes with
\* its management vNIC, enabled, in the host compartment.
HNSNetworkRequestPOST(w, x, req) ==
    Logged("NetCreate", req.Name,
        IF x.fault = "NetCreate" THEN [w |-> w, err |-> HnsFault]
        ELSE IF HasNetwork(w, req.Name) THEN [w |-> w, err |-> ErrAlreadyExists]
        ELSE [w |-> [w EXCEPT
                      !.networks = @ \cup {[Name |-> req.Name,
                                            NetworkAdapterName |-> req.NetworkAdapterName,
                                            Gateway |-> req.Gateway]},
                      !.ifaces = [i \in DOMAIN @ \cup {vNICNameFormat(req.NetworkAdapterName)} |->
                                    IF i = vNICNameFormat(req.NetworkAdapterName) THEN "up" ELSE @[i]]],
              err |-> Nil])

\* HNSNetworkRequest("DELETE", id, ""): the network goes, and its vNIC with it.
HNSNetworkRequestDELETE(w, x, id) ==
    Logged("NetDelete", id,
        IF x.fault = "NetDelete" THEN [w |-> w, err |-> HnsFault]
        ELSE IF ~HasNetwork(w, id) THEN [w |-> w, err |-> ErrNotFound]
        ELSE LET n == TheNetwork(w, id)
                 left == w.networks \ {n}
                 gone == {vNICNameFormat(n.NetworkAdapterName)} \
                            {vNICNameFormat(m.NetworkAdapterName) : m \in left}
             IN  [w |-> [w EXCEPT !.networks = left,
                                   !.ifaces = [i \in DOMAIN @ \ gone |-> @[i]]],
                  err |-> Nil])

GetHNSEndpointByName(w, name) ==
    Logged("EpFind", name,
        IF HasEndpoint(w, name)
        THEN [w |-> w, err |-> Nil, obj |-> TheEndpoint(w, name)]
        ELSE [w |-> w, err |-> ErrNotFound, obj |-> NoObject])

\* HNSEndpointRequest("POST", "", request): HNS records the addresses, writes
\* the hardware address in its own format and takes the gateway of the
\* network when the request names none.
HNSEndpointRequestPOST(w, x, req) ==
    Logged("EpCreate", req.Name,
        IF x.fault = "EpCreate" THEN [w |-> w, err |-> HnsFault, obj |-> NoObject]
        ELSE IF ~HasNetwork(w, req.VirtualNetworkName)
             THEN [w |-> w, err |-> ErrNotFound, obj |-> NoObject]
        ELSE IF HasEndpoint(w, req.Name)
             THEN [w |-> w, err |-> ErrAlreadyExists, obj |-> NoObject]
        ELSE LET e == [Name |-> req.Name,
                       VirtualNetworkName |-> req.VirtualNetworkName,
                       MacAddress |-> ReplaceToken(req.MacAddress, ":", "-"),
                       IPAddress |-> req.IPAddress,
                       GatewayAddress |-> IF req.GatewayAddress # << >>
                                          THEN req.GatewayAddress
                                          ELSE TheNetwork(w, req.VirtualNetworkName).Gateway,
                       SharedContainers |-> {}]
             IN  [w |-> [w EXCEPT !.endpoints = @ \cup {e}], err |-> Nil, obj |-> e])

\* HNSEndpointRequest("DELETE", id, "") and Endpoint.Delete().
HNSEndpointRequestDELETE(w, x, id) ==
    Logged("EpDelete", id,
        IF x.fault = "EpDelete" THEN [w |-> w, err |-> HnsFault]
        ELSE IF ~HasEndpoint(w, id) THEN [w |-> w, err |-> ErrNotFound]
        ELSE [w |-> [w EXCEPT !.endpoints = @ \ {TheEndpoint(w, id)},
                               !.nsEndpoints = [n \in DOMAIN @ |-> @[n] \ {id}]],
              err |-> Nil])

SetShared(w, id, cs) ==
    LET e == TheEndpoint(w, id)
    IN  (w.endpoints \ {e}) \cup {[e EXCEPT !.SharedContainers = cs]}

\* hcsshim.HotAttachEndpoint: nothing to do when the endpoint is already
\* attached to the container; otherwise the container must be there.
HotAttachEndpoint(w, x, containerID, id) ==
    Logged("Attach", <<id, containerID>>,
        IF ~HasEndpoint(w, id) THEN [w |-> w, err |-> ErrNotFound]
        ELSE IF containerID \in TheEndpoint(w, id).SharedContainers THEN [w |-> w, err |-> Nil]
        ELSE IF x.fault = "Attach" THEN [w |-> w, err |-> HnsFault]
        ELSE IF containerID \notin x.running
             THEN [w |-> w, err |-> ErrComputeSystemDoesNotExist]
        ELSE [w |-> [w EXCEPT !.endpoints =
                        SetShared(w, id, TheEndpoint(w, id).SharedContainers \cup {containerID})],
              err |-> Nil])

\* hcsshim.HotDetachEndpoint: nothing to do when the endpoint is not attached
\* to the container; otherwise the container must be there.
HotDetachEndpoint(w, x, containerID, id) ==
    Logged("Detach", <<id, containerID>>,
        IF ~HasEndpoint(w, id) THEN [w |-> w, err |-> ErrNotFound]
        ELSE IF containerID \notin TheEndpoint(w, id).SharedContainers THEN [w |-> w, err |-> Nil]
        ELSE IF x.fault = "Detach" THEN [w |-> w, err |-> HnsFault]
        ELSE IF containerID \notin x.running
             THEN [w |-> w, err |-> ErrComputeSystemDoesNotExist]
        ELSE [w |-> [w EXCEPT !.endpoints =
                        SetShared(w, id, TheEndpoint(w, id).SharedContainers \ {containerID})],
              err |-> Nil])

\* hcn.GetNamespaceEndpointIds
GetNamespaceEndpointIds(w, ns) ==
    Logged("NsList", ns,
        IF ns \in DOMAIN w.nsEndpoints
        THEN [w |-> w, err |-> Nil, ids |-> w.nsEndpoints[ns]]
        ELSE [w |-> w, err |-> ErrNamespaceNotFound, ids |-> {}])

\* hcn.AddNamespaceEndpoint
AddNamespaceEndpoint(w, x, ns, id) ==
    Logged("Attach", <<id, ns>>,
        IF x.fault = "Attach" THEN [w |-> w, err |-> HnsFault]
        ELSE IF ns \notin DOMAIN w.nsEndpoints THEN [w |-> w, err |-> ErrNamespaceNotFound]
        ELSE IF ~HasEndpoint(w, id) THEN [w |-> w, err |-> ErrNotFound]
        ELSE [w |-> [w EXCEPT !.nsEndpoints[ns] = @ \cup {id}], err |-> Nil])

\* hcn.RemoveNamespaceEndpoint
RemoveNamespaceEndpoint(w, x, ns, id) ==
    Logged("Detach", <<id, ns>>,
        IF x.fault = "Detach" THEN [w |-> w, err |-> HnsFault]
        ELSE IF ns \notin DOMAIN w.nsEndpoints THEN [w |-> w, err |-> ErrNamespaceNotFound]
        ELSE IF id \notin w.nsEndpoints[ns] THEN [w |-> w, err |-> ErrNotFound]
        ELSE [w |-> [w EXCEPT !.nsEndpoints[ns] = @ \ {id}], err |-> Nil])

----------------------------------------------------------------------------
(* Package hnswrapper.                                                     *)

HNSVersion1803 == [Major |-> 7, Minor |-> 2]

HnsDefaultMinVersion == HNSVersion1803

\* CheckHNSVersion comparing the major version alone.
CheckHNSVersion_MajorOnly(x, hnsMinVersion) ==
    IF x.ver.Major < hnsMinVersion.Major THEN "VersionUnsupported" ELSE Nil

CheckHNSVersion(x, hnsMinVersion) ==
    LET hnsVersion == x.ver
        supported == \/ hnsVersion.Major > hnsMinVersion.Major
                     \/ (hnsVersion.Major = hnsMinVersion.Major /\
                         hnsVersion.Minor >= hnsMinVersion.Minor)
    IN  IF ~supported THEN "VersionUnsupported" ELSE Nil

\* FindOrCreateHNSNetwork looking for the network again when its request to
\* create it is rejected because the network exists.
FindOrCreateHNSNetworkCreate_Requery(w, x, nw, findErr) ==
    IF nw.ShouldExist
    THEN [w |-> w, existing |-> FALSE, err |-> findErr]
    ELSE LET p == HNSNetworkRequestPOST(w, x, [Name |-> nw.Name,
                                               NetworkAdapterName |-> nw.NetworkAdapterName,
                                               Gateway |-> nw.Gateway])
             f == GetHNSNetworkByName(p.w, nw.Name)
         IN  IF p.err = ErrAlreadyExists
             THEN [w |-> f.w, existing |-> TRUE, err |-> f.err]
             ELSE [w |-> p.w, existing |-> FALSE, err |-> p.err]

\* FindOrCreateHNSNetwork after its find has failed with findErr.
FindOrCreateHNSNetworkCreate(w, x, nw, findErr) ==
    IF nw.ShouldExist
    THEN [w |-> w, existing |-> FALSE, err |-> findErr]
    ELSE LET p == HNSNetworkRequestPOST(w, x, [Name |-> nw.Name,
                                               NetworkAdapterName |-> nw.NetworkAdapterName,
                                               Gateway |-> nw.Gateway])
         IN  [w |-> p.w, existing |-> FALSE, err |-> p.err]

\* FindOrCreateHNSNetwork creating the network without looking for it.
FindOrCreateHNSNetwork_NoFind(w, x, nw) ==
    FindOrCreateHNSNetworkCreate(w, x, nw, ErrNotFound)

FindOrCreateHNSNetwork(w, x, nw) ==
    LET f == GetHNSNetworkByName(w, nw.Name)
    IN  IF f.err = Nil
        THEN [w |-> f.w, existing |-> TRUE, err |-> Nil]
        ELSE FindOrCreateHNSNetworkCreate(f.w, x, nw, f.err)

\* DeleteHNSNetwork taking a network that is not there for deleted.
DeleteHNSNetwork_AbsentIsDeleted(w, x, nw) ==
    LET f == GetHNSNetworkByName(w, nw.Name)
    IN  IF f.err # Nil
        THEN [w |-> f.w, err |-> Nil]
        ELSE LET d == HNSNetworkRequestDELETE(f.w, x, f.obj.Name)
             IN  [w |-> d.w, err |-> d.err]

DeleteHNSNetwork(w, x, nw) ==
    LET f == GetHNSNetworkByName(w, nw.Name)
    IN  IF f.err # Nil
        THEN [w |-> f.w, err |-> f.err]
        ELSE LET d == HNSNetworkRequestDELETE(f.w, x, f.obj.Name)
             IN  [w |-> d.w, err |-> d.err]

\* populateEndpointFieldsFromResponse taking the ID alone from the response.
populateEndpointFieldsFromResponse_IDOnly(hnsResponse, ep) ==
    [ep EXCEPT !.ID = hnsResponse.Name]

populateEndpointFieldsFromResponse(hnsResponse, ep) ==
    [ep EXCEPT !.ID = hnsResponse.Name,
               !.IPAddress = hnsResponse.IPAddress,
               !.MacAddress = hnsResponse.MacAddress,
               !.Gateway = hnsResponse.GatewayAddress]

\* FindOrCreateHNSEndpoint creating the endpoint for a container that shares
\* the namespace of another as well.
FindOrCreateHNSEndpointCreate_AnyMode(w, x, ep, findErr) ==
    LET p == HNSEndpointRequestPOST(w, x, [Name |-> ep.Name,
                                           VirtualNetworkName |-> ep.VirtualNetworkName,
                                           GatewayAddress |-> ep.Gateway,
                                           MacAddress |-> ep.MacAddress,
                                           IPAddress |-> ep.IPAddress])
    IN  IF p.err # Nil
        THEN [w |-> p.w, existing |-> FALSE, err |-> p.err, ep |-> ep]
        ELSE [w |-> p.w, existing |-> FALSE, err |-> Nil,
              ep |-> populateEndpointFieldsFromResponse(p.obj, ep)]

\* FindOrCreateHNSEndpoint after its find has failed with findErr.
FindOrCreateHNSEndpointCreate(w, x, ep, findErr) ==
    IF ~ep.Container.IsInfraContainer /\ ~ep.NetNS.UseNamespace
    THEN [w |-> w, existing |-> FALSE, err |-> "FailedToFindEndpoint", ep |-> ep]
    ELSE LET p == HNSEndpointRequestPOST(w, x, [Name |-> ep.Name,
                                                VirtualNetworkName |-> ep.VirtualNetworkName,
                                                GatewayAddress |-> ep.Gateway,
                                                MacAddress |-> ep.MacAddress,
                                                IPAddress |-> ep.IPAddress])
         IN  IF p.err # Nil
             THEN [w |-> p.w, existing |-> FALSE, err |-> p.err, ep |-> ep]
             ELSE [w |-> p.w, existing |-> FALSE, err |-> Nil,
                   ep |-> populateEndpointFieldsFromResponse(p.obj, ep)]

FindOrCreateHNSEndpoint(w, x, ep) ==
    LET f == GetHNSEndpointByName(w, ep.Name)
    IN  IF f.err = Nil
        THEN [w |-> f.w, existing |-> TRUE, err |-> Nil,
              ep |-> populateEndpointFieldsFromResponse(f.obj, ep)]
        ELSE FindOrCreateHNSEndpointCreate(f.w, x, ep, f.err)

attachEndpointV1(w, x, ep) == HotAttachEndpoint(w, x, ep.Container.ContainerID, ep.ID)

attachEndpointV2(w, x, ep) ==
    LET g == GetNamespaceEndpointIds(w, ep.NetNS.NetNSName)
    IN  IF g.err # Nil THEN [w |-> g.w, err |-> g.err]
        ELSE IF \E endpointID \in g.ids : endpointID = endpointID
             THEN [w |-> g.w, err |-> Nil]
        ELSE AddNamespaceEndpoint(g.w, x, ep.NetNS.NetNSName, ep.ID)

\* deleteHNSEndpointV1 leaving the endpoint of the infrastructure container
\* in place once detached.
deleteHNSEndpointV1_DetachOnly(w, x, ep) ==
    LET f == GetHNSEndpointByName(w, ep.Name)
    IN  IF f.err # Nil THEN [w |-> f.w, err |-> f.err]
        ELSE LET d == HotDetachEndpoint(f.w, x, ep.Container.ContainerID, f.obj.Name)
             IN  IF d.err # Nil /\ d.err # ErrComputeSystemDoesNotExist
                 THEN [w |-> d.w, err |-> d.err]
                 ELSE [w |-> d.w, err |-> Nil]

\* deleteHNSEndpointV2 leaving the endpoint in place once it is out of the
\* namespace.
deleteHNSEndpointV2_DetachOnly(w, x, ep) ==
    LET f == GetHNSEndpointByName(w, ep.Name)
    IN  IF f.err # Nil THEN [w |-> f.w, err |-> f.err]
        ELSE LET d == RemoveNamespaceEndpoint(f.w, x, ep.NetNS.NetNSName, f.obj.Name)
             IN  [w |-> d.w, err |-> d.err]

deleteHNSEndpointV1(w, x, ep) ==
    LET f == GetHNSEndpointByName(w, ep.Name)
    IN  IF f.err # Nil THEN [w |-> f.w, err |-> f.err]
        ELSE LET d == HotDetachEndpoint(f.w, x, ep.Container.ContainerID, f.obj.Name)
             IN  IF d.err # Nil /\ d.err # ErrComputeSystemDoesNotExist
                 THEN [w |-> d.w, err |-> d.err]
                 ELSE IF ~ep.Container.IsInfraContainer
                      THEN [w |-> d.w, err |-> Nil]
                      ELSE HNSEndpointRequestDELETE(d.w, x, f.obj.Name)

deleteHNSEndpointV2(w, x, ep) ==
    LET f == GetHNSEndpointByName(w, ep.Name)
    IN  IF f.err # Nil THEN [w |-> f.w, err |-> f.err]
        ELSE LET d == RemoveNamespaceEndpoint(f.w, x, ep.NetNS.NetNSName, f.obj.Name)
             IN  IF d.err # Nil
                 THEN [w |-> d.w, err |-> d.err]
                 ELSE HNSEndpointRequestDELETE(d.w, x, f.obj.Name)

DeleteHNSEndpoint(w, x, ep) ==
    IF ep.NetNS.UseNamespace THEN deleteHNSEndpointV2(w, x, ep) ELSE deleteHNSEndpointV1(w, x, ep)

\* AttachEndpoint trying a second time when the attach fails.
AttachEndpoint_Retry(w, x, ep) ==
    LET a == IF ep.NetNS.UseNamespace THEN attachEndpointV2(w, x, ep)
                                      ELSE attachEndpointV1(w, x, ep)
    IN  IF a.err = Nil THEN a
        ELSE IF ep.NetNS.UseNamespace THEN attachEndpointV2(a.w, x, ep)
                                      ELSE attachEndpointV1(a.w, x, ep)

AttachEndpoint(w, x, ep) ==
    IF ep.NetNS.UseNamespace THEN attachEndpointV2(w, x, ep) ELSE attachEndpointV1(w, x, ep)

----------------------------------------------------------------------------
(* Package network: the descriptors and the two builders.                  *)
(* A Network descriptor carries both flags the sources use: ShouldExist,   *)
(* which Plugin.Add and Plugin.Del set and read and NetBuilder uses, and   *)
(* UseExisting, which netBuilder uses and no caller sets.                  *)

hnsTransparentNetworkType == "Transparent"

\* disableInterface looking the interface up and leaving it as it is.
disableInterface_LookupOnly(w, x, adapterName) ==
    Logged("IfFind", adapterName,
           IF adapterName \notin DOMAIN w.ifaces
           THEN [w |-> w, err |-> "NoSuchInterface"]
           ELSE [w |-> w, err |-> Nil])

\* disableInterface: net.InterfaceByName, then netsh when the interface is up.
disableInterface(w, x, adapterName) ==
    LET f == Logged("IfFind", adapterName,
                    IF adapterName \notin DOMAIN w.ifaces
                    THEN [w |-> w, err |-> "NoSuchInterface"]
                    ELSE [w |-> w, err |-> Nil])
    IN  IF f.err # Nil THEN f
        ELSE IF f.w.ifaces[adapterName] = "up"
             THEN Logged("IfDisable", adapterName,
                         IF x.fault = "Disable"
                         THEN [w |-> f.w, err |-> "NetshFailed"]
                         ELSE [w |-> [f.w EXCEPT !.ifaces[adapterName] = "down"], err |-> Nil])
        ELSE f

generateHNSEndpointName(networkName, identifier) ==
    hnsEndpointNameFormat(networkName, identifier)

\* The HNSEndpoint configuration both builders start from.
NewHNSEndpoint(VirtualNetworkName) ==
    [ID |-> << >>, Name |-> << >>, VirtualNetworkName |-> VirtualNetworkName,
     MacAddress |-> << >>, IPAddress |-> NilIP, Gateway |-> << >>,
     NetNS |-> [UseNamespace |-> FALSE, NetNSName |-> << >>],
     Container |-> [ContainerID |-> << >>, IsInfraContainer |-> FALSE,
                    InfraContainerID |-> << >>]]

\* FindOrCreateEndpoint attaching an endpoint it found in every mode.
AttachFoundOrCreated_AttachAlways(x, nw, ep, r) ==
    IF r.err # Nil
    THEN [w |-> r.w, err |-> r.err, nw |-> nw, ep |-> ep]
    ELSE LET ep1 == [ep EXCEPT !.IPAddress = r.ep.IPAddress,
                               !.MACAddress = ParseMAC(r.ep.MacAddress)]
             nw1 == [nw EXCEPT !.GatewayIPAddress = r.ep.Gateway]
             a == AttachEndpoint(r.w, x, r.ep)
         IN  IF r.existing
             THEN [w |-> a.w, err |-> a.err, nw |-> nw1, ep |-> ep1]
             ELSE IF a.err # Nil
                  THEN [w |-> DeleteHNSEndpoint(a.w, x, r.ep).w, err |-> a.err,
                        nw |-> nw1, ep |-> ep1]
                  ELSE [w |-> a.w, err |-> Nil, nw |-> nw1, ep |-> ep1]

\* FindOrCreateEndpoint cleaning up an endpoint it found when the attach fails.
AttachFoundOrCreated_CleanupFound(x, nw, ep, r) ==
    IF r.err # Nil
    THEN [w |-> r.w, err |-> r.err, nw |-> nw, ep |-> ep]
    ELSE LET ep1 == [ep EXCEPT !.IPAddress = r.ep.IPAddress,
                               !.MACAddress = ParseMAC(r.ep.MacAddress)]
             nw1 == [nw EXCEPT !.GatewayIPAddress = r.ep.Gateway]
         IN  IF r.existing /\ (r.ep.Container.IsInfraContainer \/ r.ep.NetNS.UseNamespace)
             THEN [w |-> r.w, err |-> Nil, nw |-> nw1, ep |-> ep1]
             ELSE LET a == AttachEndpoint(r.w, x, r.ep)
                  IN  IF a.err # Nil
                      THEN [w |-> DeleteHNSEndpoint(a.w, x,
                                      [r.ep EXCEPT !.Container.IsInfraContainer = TRUE]).w,
                            err |-> a.err, nw |-> nw1, ep |-> ep1]
                      ELSE [w |-> a.w, err |-> Nil, nw |-> nw1, ep |-> ep1]

\* What both builders do with the endpoint once FindOrCreateHNSEndpoint has
\* answered r: copy the response back, then attach, and clean up when the
\* attach of a new endpoint fails.
AttachFoundOrCreated(x, nw, ep, r) ==
    IF r.err # Nil
    THEN [w |-> r.w, err |-> r.err, nw |-> nw, ep |-> ep]
    ELSE LET ep1 == [ep EXCEPT !.IPAddress = r.ep.IPAddress,
                               !.MACAddress = ParseMAC(r.ep.MacAddress)]
             nw1 == [nw EXCEPT !.GatewayIPAddress = r.ep.Gateway]
         IN  IF r.existing
             THEN IF r.ep.Container.IsInfraContainer \/ r.ep.NetNS.UseNamespace
                  THEN [w |-> r.w, err |-> Nil, nw |-> nw1, ep |-> ep1]
                  ELSE LET a == AttachEndpoint(r.w, x, r.ep)
                       IN  [w |-> a.w, err |-> a.err, nw |-> nw1, ep |-> ep1]
             ELSE LET a == AttachEndpoint(r.w, x, r.ep)
                  IN  IF a.err # Nil
                      THEN [w |-> DeleteHNSEndpoint(a.w, x, r.ep).w, err |-> a.err,
                            nw |-> nw1, ep |-> ep1]
                      ELSE [w |-> a.w, err |-> Nil, nw |-> nw1, ep |-> ep1]

(* netBuilder *)

netBuilder_generateHNSNetworkName(nw) ==
    IF nw.UseExisting
    THEN nw.Name
    ELSE hnsNetworkNameFormat(StripToken(HardwareAddrString(nw.ENI.macAddress), ":"))

\* getNamespaceIdentifier taking "none" for the name of a namespace.
netBuilder_getNamespaceIdentifier_NoneIsNamespace(ep) ==
    IF ep.NetNSName = EmptyStr
    THEN [nsType |-> infraContainerNS, id |-> ep.ContainerID]
    ELSE IF HasPrefix(ep.NetNSName, containerPrefix)
    THEN [nsType |-> nonInfraContainerNS, id |-> TrimPrefix(ep.NetNSName, containerPrefix)]
    ELSE [nsType |-> hcsNamespace, id |-> ep.NetNSName]

netBuilder_getNamespaceIdentifier(ep) ==
    IF ep.NetNSName = EmptyStr \/ ep.NetNSName = noneNetNS
    THEN [nsType |-> infraContainerNS, id |-> ep.ContainerID]
    ELSE IF HasPrefix(ep.NetNSName, containerPrefix)
    THEN [nsType |-> nonInfraContainerNS, id |-> TrimPrefix(ep.NetNSName, containerPrefix)]
    ELSE [nsType |-> hcsNamespace, id |-> ep.NetNSName]

netBuilder_DeleteNetwork(w, x, nw) == DeleteHNSNetwork(w, x, [Name |-> nw.Name])

\* The HNSNetwork configuration of netBuilder.FindOrCreateNetwork, which
\* leaves ShouldExist at its zero value.
netBuilder_networkConfig(nw) ==
    [Name |-> nw.Name, Type |-> hnsTransparentNetworkType,
     NetworkAdapterName |-> nw.ENI.linkName, AddressPrefix |-> nw.IPAddress,
     Gateway |-> nw.GatewayIPAddress, ShouldExist |-> FALSE]

\* netBuilder.FindOrCreateNetwork returning the failure of disableInterface
\* without deleting the network it created.
netBuilder_HardenNetwork_NoRollback(x, nw, r) ==
    IF r.err # Nil THEN [w |-> r.w, err |-> r.err, nw |-> nw]
    ELSE IF ~r.existing
    THEN LET d == disableInterface(r.w, x, vNICNameFormat(nw.ENI.linkName))
         IN  [w |-> d.w, err |-> d.err, nw |-> nw]
    ELSE [w |-> r.w, err |-> Nil, nw |-> nw]

\* netBuilder.FindOrCreateNetwork disabling the management vNIC of a network
\* it found as well.
netBuilder_HardenNetwork_AlwaysDisable(x, nw, r) ==
    IF r.err # Nil THEN [w |-> r.w, err |-> r.err, nw |-> nw]
    ELSE LET d == disableInterface(r.w, x, vNICNameFormat(nw.ENI.linkName))
         IN  IF d.err # Nil
             THEN [w |-> netBuilder_DeleteNetwork(d.w, x, nw).w, err |-> d.err, nw |-> nw]
             ELSE [w |-> d.w, err |-> Nil, nw |-> nw]

\* FindOrCreateNetwork once FindOrCreateHNSNetwork has answered r.
netBuilder_HardenNetwork(x, nw, r) ==
    IF r.err # Nil THEN [w |-> r.w, err |-> r.err, nw |-> nw]
    ELSE IF ~r.existing
    THEN LET d == disableInterface(r.w, x, vNICNameFormat(nw.ENI.linkName))
         IN  IF d.err # Nil
             THEN [w |-> netBuilder_DeleteNetwork(d.w, x, nw).w, err |-> d.err, nw |-> nw]
             ELSE [w |-> d.w, err |-> Nil, nw |-> nw]
    ELSE [w |-> r.w, err |-> Nil, nw |-> nw]

netBuilder_FindOrCreateNetwork(w, x, nw) ==
    IF CheckHNSVersion(x, HnsDefaultMinVersion) # Nil
    THEN [w |-> w, err |-> CheckHNSVersion(x, HnsDefaultMinVersion), nw |-> nw]
    ELSE LET nw1 == [nw EXCEPT !.Name = netBuilder_generateHNSNetworkName(nw)]
         IN  netBuilder_HardenNetwork(x, nw1,
                 FindOrCreateHNSNetwork(w, x, netBuilder_networkConfig(nw1)))

\* The HNSEndpoint configuration of netBuilder.FindOrCreateEndpoint.
netBuilder_hnsEndpoint(nw, ep) ==
    LET c == netBuilder_getNamespaceIdentifier(ep)
        h == [NewHNSEndpoint(nw.Name) EXCEPT
                 !.MacAddress = HardwareAddrString(ep.MACAddress),
                 !.IPAddress = ep.IPAddress,
                 !.Name = generateHNSEndpointName(nw.Name, c.id)]
    IN  IF c.nsType = hcsNamespace
        THEN [h EXCEPT !.NetNS = [UseNamespace |-> TRUE, NetNSName |-> c.id]]
        ELSE [h EXCEPT !.Container = [ContainerID |-> ep.ContainerID,
                                      InfraContainerID |-> c.id,
                                      IsInfraContainer |-> (c.nsType = infraContainerNS)]]

netBuilder_FindOrCreateEndpoint(w, x, nw, ep) ==
    AttachFoundOrCreated(x, nw, ep, FindOrCreateHNSEndpoint(w, x, netBuilder_hnsEndpoint(nw, ep)))

netBuilder_DeleteEndpoint(w, x, nw, ep) ==
    LET nw1 == [nw EXCEPT !.Name = netBuilder_generateHNSNetworkName(nw)]
        c == netBuilder_getNamespaceIdentifier(ep)
        h == [NewHNSEndpoint(<< >>) EXCEPT !.Name = generateHNSEndpointName(nw1.Name, c.id)]
        h1 == IF c.nsType = hcsNamespace
              THEN [h EXCEPT !.NetNS = [UseNamespace |-> TRUE, NetNSName |-> ep.NetNSName]]
              ELSE [h EXCEPT !.Container = [ContainerID |-> ep.ContainerID,
                                            InfraContainerID |-> c.id,
                                            IsInfraContainer |-> (c.nsType = infraContainerNS)]]
        nw2 == IF c.nsType = nonInfraContainerNS
               THEN [nw1 EXCEPT !.UseExisting = TRUE]
               ELSE nw1
        d == DeleteHNSEndpoint(w, x, h1)
    IN  [w |-> d.w, err |-> d.err, nw |-> nw2]

(* NetBuilder *)

NetBuilder_generateHNSNetworkName(nw) ==
    IF nw.ShouldExist
    THEN nw.Name
    ELSE hnsNetworkNameFormat(StripToken(HardwareAddrString(nw.ENI.macAddress), ":"))

\* getInfraContainerID taking every other reference for the container's own.
NetBuilder_getInfraContainerID_NeverFails(ep) ==
    IF HasPrefix(ep.NetNSName, containerPrefix)
    THEN [isInfraContainer |-> FALSE,
          infraContainerID |-> TrimPrefix(ep.NetNSName, containerPrefix), err |-> Nil]
    ELSE [isInfraContainer |-> TRUE, infraContainerID |-> ep.ContainerID, err |-> Nil]

NetBuilder_getInfraContainerID(ep) ==
    IF ep.NetNSName = EmptyStr \/ ep.NetNSName = noneNetNS
    THEN [isInfraContainer |-> TRUE, infraContainerID |-> ep.ContainerID, err |-> Nil]
    ELSE IF HasPrefix(ep.NetNSName, containerPrefix)
    THEN [isInfraContainer |-> FALSE,
          infraContainerID |-> TrimPrefix(ep.NetNSName, containerPrefix), err |-> Nil]
    ELSE [isInfraContainer |-> FALSE, infraContainerID |-> << >>, err |-> "FailedToParseNetns"]

NetBuilder_DeleteNetwork(w, x, nw) == DeleteHNSNetwork(w, x, [Name |-> nw.Name])

NetBuilder_networkConfig(nw) ==
    [Name |-> nw.Name, Type |-> hnsTransparentNetworkType,
     NetworkAdapterName |-> nw.ENI.linkName, AddressPrefix |-> nw.IPAddress,
     Gateway |-> nw.GatewayIPAddress, ShouldExist |-> nw.ShouldExist]

NetBuilder_HardenNetwork(x, nw, r) ==
    IF r.err # Nil THEN [w |-> r.w, err |-> r.err, nw |-> nw]
    ELSE IF ~r.existing
    THEN LET d == disableInterface(r.w, x, vNICNameFormat(nw.ENI.linkName))
         IN  IF d.err # Nil
             THEN [w |-> NetBuilder_DeleteNetwork(d.w, x, nw).w, err |-> d.err, nw |-> nw]
             ELSE [w |-> d.w, err |-> Nil, nw |-> nw]
    ELSE [w |-> r.w, err |-> Nil, nw |-> nw]

NetBuilder_FindOrCreateNetwork(w, x, nw) ==
    IF CheckHNSVersion(x, HnsDefaultMinVersion) # Nil
    THEN [w |-> w, err |-> CheckHNSVersion(x, HnsDefaultMinVersion), nw |-> nw]
    ELSE LET nw1 == [nw EXCEPT !.Name = NetBuilder_generateHNSNetworkName(nw)]
         IN  NetBuilder_HardenNetwork(x, nw1,
                 FindOrCreateHNSNetwork(w, x, NetBuilder_networkConfig(nw1)))

\* The HNSEndpoint configuration of NetBuilder.FindOrCreateEndpoint and
\* NetBuilder.DeleteEndpoint, with the error of getInfraContainerID.
NetBuilder_hnsEndpoint(h, nw, ep) ==
    IF ep.NoInfraContainer
    THEN [err |-> Nil, isInfraContainer |-> FALSE, usesContainer |-> FALSE,
          h |-> [h EXCEPT !.NetNS = [UseNamespace |-> TRUE, NetNSName |-> ep.NetNSName],
                          !.Name = generateHNSEndpointName(nw.Name, ep.NetNSName)]]
    ELSE LET c == NetBuilder_getInfraContainerID(ep)
         IN  IF c.err # Nil
             THEN [err |-> c.err, isInfraContainer |-> FALSE, usesContainer |-> TRUE, h |-> h]
             ELSE [err |-> Nil, isInfraContainer |-> c.isInfraContainer, usesContainer |-> TRUE,
                   h |-> [h EXCEPT !.Container = [ContainerID |-> ep.ContainerID,
                                                  IsInfraContainer |-> c.isInfraContainer,
                                                  InfraContainerID |-> c.infraContainerID],
                                   !.Name = generateHNSEndpointName(nw.Name, c.infraContainerID)]]

\* The HNSEndpoint NetBuilder.FindOrCreateEndpoint starts from.
NetBuilder_newEndpoint(nw, ep) ==
    [NewHNSEndpoint(nw.Name) EXCEPT
        !.MacAddress = HardwareAddrString(ep.MACAddress),
        !.IPAddress = ep.IPAddress]

NetBuilder_FindOrCreateEndpoint(w, x, nw, ep) ==
    LET c == NetBuilder_hnsEndpoint(NetBuilder_newEndpoint(nw, ep), nw, ep)
    IN  IF c.err # Nil
        THEN [w |-> w, err |-> c.err, nw |-> nw, ep |-> ep]
        ELSE AttachFoundOrCreated(x, nw, ep, FindOrCreateHNSEndpoint(w, x, c.h))

NetBuilder_DeleteEndpoint(w, x, nw, ep) ==
    LET nw1 == [nw EXCEPT !.Name = NetBuilder_generateHNSNetworkName(nw)]
        c == NetBuilder_hnsEndpoint(NewHNSEndpoint(<< >>), nw1, ep)
    IN  IF c.err # Nil
        THEN [w |-> w, err |-> c.err, nw |-> nw1]
        ELSE LET nw2 == IF c.usesContainer /\ ~c.isInfraContainer
                        THEN [nw1 EXCEPT !.ShouldExist = TRUE]
                        ELSE nw1
                 d == DeleteHNSEndpoint(w, x, c.h)
             IN  [w |-> d.w, err |-> d.err, nw |-> nw2]

----------------------------------------------------------------------------
(* Package config and the command handlers of package plugin.              *)

\* config.New without the check of the ENI name.
config_New_ENINameOptional(cfg, args) ==
    LET netConfig == [Name |-> cfg.Name, ENIName |-> cfg.ENIName,
                      ENIMACAddress |-> ParseMAC(cfg.ENIMACAddress),
                      ENIIPAddress |-> GetIPAddressFromString(cfg.ENIIPAddress),
                      GatewayIPAddress |-> cfg.GatewayIPAddress,
                      NoInfraContainer |-> cfg.NoInfraContainer,
                      UseExistingNetwork |-> cfg.UseExistingNetwork]
        err == IF cfg.UseExistingNetwork /\ cfg.Name = EmptyStr
                  THEN "MissingNetworkName"
               ELSE IF ~cfg.UseExistingNetwork /\ cfg.ENIMACAddress = EmptyStr
                  THEN "MissingENIMACAddress"
               ELSE IF ~cfg.UseExistingNetwork /\ cfg.ENIIPAddress = EmptyStr
                  THEN "MissingENIIPAddress"
               ELSE IF cfg.NoInfraContainer /\ args.Netns = EmptyStr
                  THEN "MissingNetns"
               ELSE IF cfg.ENIMACAddress # EmptyStr /\ ~ParseMACok(cfg.ENIMACAddress)
                  THEN "InvalidENIMACAddress"
               ELSE IF cfg.ENIIPAddress # EmptyStr /\
                       GetIPAddressFromString(cfg.ENIIPAddress) = NilIP
                  THEN "InvalidENIIPAddress"
               ELSE Nil
    IN  [err |-> err, netConfig |-> netConfig]

\* config.New: the validations, then the parsing of the addresses.
config_New(cfg, args) ==
    LET netConfig == [Name |-> cfg.Name, ENIName |-> cfg.ENIName,
                      ENIMACAddress |-> ParseMAC(cfg.ENIMACAddress),
                      ENIIPAddress |-> GetIPAddressFromString(cfg.ENIIPAddress),
                      GatewayIPAddress |-> cfg.GatewayIPAddress,
                      NoInfraContainer |-> cfg.NoInfraContainer,
                      UseExistingNetwork |-> cfg.UseExistingNetwork]
        err == IF cfg.UseExistingNetwork /\ cfg.Name = EmptyStr
                  THEN "MissingNetworkName"
               ELSE IF ~cfg.UseExistingNetwork /\ cfg.ENIName = EmptyStr
                  THEN "MissingENIName"
               ELSE IF ~cfg.UseExistingNetwork /\ cfg.ENIMACAddress = EmptyStr
                  THEN "MissingENIMACAddress"
               ELSE IF ~cfg.UseExistingNetwork /\ cfg.ENIIPAddress = EmptyStr
                  THEN "MissingENIIPAddress"
               ELSE IF cfg.NoInfraContainer /\ args.Netns = EmptyStr
                  THEN "MissingNetns"
               ELSE IF cfg.ENIMACAddress # EmptyStr /\ ~ParseMACok(cfg.ENIMACAddress)
                  THEN "InvalidENIMACAddress"
               ELSE IF cfg.ENIIPAddress # EmptyStr /\
                       GetIPAddressFromString(cfg.ENIIPAddress) = NilIP
                  THEN "InvalidENIIPAddress"
               ELSE Nil
    IN  [err |-> err, netConfig |-> netConfig]

\* eni.NewENI
NewENI(linkName, macAddress) == [linkName |-> linkName, macAddress |-> macAddress]

\* plugin.nb: the builder the plugin was built with, b.
nb_FindOrCreateNetwork(b, w, x, nw) ==
    IF b = "NetBuilder" THEN NetBuilder_FindOrCreateNetwork(w, x, nw)
                        ELSE netBuilder_FindOrCreateNetwork(w, x, nw)

nb_FindOrCreateEndpoint(b, w, x, nw, ep) ==
    IF b = "NetBuilder" THEN NetBuilder_FindOrCreateEndpoint(w, x, nw, ep)
                        ELSE netBuilder_FindOrCreateEndpoint(w, x, nw, ep)

nb_DeleteEndpoint(b, w, x, nw, ep) ==
    IF b = "NetBuilder" THEN NetBuilder_DeleteEndpoint(w, x, nw, ep)
                        ELSE netBuilder_DeleteEndpoint(w, x, nw, ep)

nb_DeleteNetwork(b, w, x, nw) ==
    IF b = "NetBuilder" THEN NetBuilder_DeleteNetwork(w, x, nw)
                        ELSE netBuilder_DeleteNetwork(w, x, nw)

\* The pieces of the builder's FindOrCreateNetwork and FindOrCreateEndpoint.
nb_generateHNSNetworkName(b, nw) ==
    IF b = "NetBuilder" THEN NetBuilder_generateHNSNetworkName(nw)
                        ELSE netBuilder_generateHNSNetworkName(nw)

nb_networkConfig(b, nw) ==
    IF b = "NetBuilder" THEN NetBuilder_networkConfig(nw)
                        ELSE netBuilder_networkConfig(nw)

nb_HardenNetwork(b, x, nw, r) ==
    IF b = "NetBuilder" THEN NetBuilder_HardenNetwork(x, nw, r)
                        ELSE netBuilder_HardenNetwork(x, nw, r)

nb_hnsEndpoint(b, nw, ep) ==
    IF b = "NetBuilder"
    THEN LET c == NetBuilder_hnsEndpoint(NetBuilder_newEndpoint(nw, ep), nw, ep)
         IN  [err |-> c.err, h |-> c.h]
    ELSE [err |-> Nil, h |-> netBuilder_hnsEndpoint(nw, ep)]

NoResult == [Mac |-> << >>, Sandbox |-> << >>, Address |-> NilIP, Gateway |-> << >>]

\* The Network descriptor Plugin.Add and Plugin.Del build.
Plugin_Network(netConfig) ==
    [Name |-> netConfig.Name,
     ENI |-> NewENI(netConfig.ENIName, netConfig.ENIMACAddress),
     IPAddress |-> netConfig.ENIIPAddress,
     GatewayIPAddress |-> netConfig.GatewayIPAddress,
     ShouldExist |-> netConfig.UseExistingNetwork,
     UseExisting |-> FALSE]

\* The Endpoint descriptor Plugin.Add and Plugin.Del build.
Plugin_Endpoint(netConfig, args) ==
    [ContainerID |-> args.ContainerID, NetNSName |-> args.Netns,
     IPAddress |-> netConfig.ENIIPAddress, MACAddress |-> netConfig.ENIMACAddress,
     NoInfraContainer |-> netConfig.NoInfraContainer]

\* Plugin.Add deleting the network when FindOrCreateEndpoint fails.
Plugin_Add_NetworkRolledBack(b, w, x, cfg, args) ==
    LET c == config_New(cfg, args)
    IN  IF c.err # Nil
        THEN [w |-> w, err |-> "FailedToParseConfig", result |-> NoResult, steps |-> << >>]
        ELSE
        LET n == nb_FindOrCreateNetwork(b, w, x, Plugin_Network(c.netConfig))
        IN  IF n.err # Nil
            THEN [w |-> n.w, err |-> "FailedToCreateFindNetwork", result |-> NoResult,
                  steps |-> <<<<"FindOrCreateNetwork", n.err>>>>]
            ELSE
            LET e == nb_FindOrCreateEndpoint(b, n.w, x, n.nw, Plugin_Endpoint(c.netConfig, args))
            IN  IF e.err # Nil
                THEN [w |-> nb_DeleteNetwork(b, e.w, x, n.nw).w,
                      err |-> "FailedToCreateFindEndpoint", result |-> NoResult,
                      steps |-> <<<<"FindOrCreateNetwork", Nil>>,
                                  <<"FindOrCreateEndpoint", e.err>>>>]
                ELSE [w |-> e.w, err |-> Nil,
                      result |-> [Mac |-> HardwareAddrString(e.ep.MACAddress),
                                  Sandbox |-> args.Netns,
                                  Address |-> e.ep.IPAddress,
                                  Gateway |-> e.nw.GatewayIPAddress],
                      steps |-> <<<<"FindOrCreateNetwork", Nil>>,
                                  <<"FindOrCreateEndpoint", Nil>>>>]

\* Plugin.Add.  steps are the builder calls made, each with its error.
Plugin_Add(b, w, x, cfg, args) ==
    LET c == config_New(cfg, args)
    IN  IF c.err # Nil
        THEN [w |-> w, err |-> "FailedToParseConfig", result |-> NoResult, steps |-> << >>]
        ELSE
        LET n == nb_FindOrCreateNetwork(b, w, x, Plugin_Network(c.netConfig))
        IN  IF n.err # Nil
            THEN [w |-> n.w, err |-> "FailedToCreateFindNetwork", result |-> NoResult,
                  steps |-> <<<<"FindOrCreateNetwork", n.err>>>>]
            ELSE
            LET e == nb_FindOrCreateEndpoint(b, n.w, x, n.nw, Plugin_Endpoint(c.netConfig, args))
            IN  IF e.err # Nil
                THEN [w |-> e.w, err |-> "FailedToCreateFindEndpoint", result |-> NoResult,
                      steps |-> <<<<"FindOrCreateNetwork", Nil>>,
                                  <<"FindOrCreateEndpoint", e.err>>>>]
                ELSE [w |-> e.w, err |-> Nil,
                      result |-> [Mac |-> HardwareAddrString(e.ep.MACAddress),
                                  Sandbox |-> args.Netns,
                                  Address |-> e.ep.IPAddress,
                                  Gateway |-> e.nw.GatewayIPAddress],
                      steps |-> <<<<"FindOrCreateNetwork", Nil>>,
                                  <<"FindOrCreateEndpoint", Nil>>>>]

\* Plugin.Del returning the failure of DeleteEndpoint.
Plugin_Del_EndpointFailureReturned(b, w, x, cfg, args) ==
    LET c == config_New(cfg, args)
    IN  IF c.err # Nil
        THEN [w |-> w, err |-> "FailedToParseConfig", result |-> NoResult, steps |-> << >>]
        ELSE
        LET nw == [Plugin_Network(c.netConfig) EXCEPT !.IPAddress = NilIP,
                                                      !.GatewayIPAddress = << >>]
            e == nb_DeleteEndpoint(b, w, x, nw, Plugin_Endpoint(c.netConfig, args))
        IN  IF e.err # Nil
            THEN [w |-> e.w, err |-> "FailedToDeleteEndpoint", result |-> NoResult,
                  steps |-> <<<<"DeleteEndpoint", e.err>>>>]
            ELSE IF ~e.nw.ShouldExist
            THEN LET d == nb_DeleteNetwork(b, e.w, x, e.nw)
                 IN  [w |-> d.w,
                      err |-> IF d.err # Nil THEN "FailedToDeleteNetwork" ELSE Nil,
                      result |-> NoResult,
                      steps |-> <<<<"DeleteEndpoint", e.err>>, <<"DeleteNetwork", d.err>>>>]
            ELSE [w |-> e.w, err |-> Nil, result |-> NoResult,
                  steps |-> <<<<"DeleteEndpoint", e.err>>>>]

\* Plugin.Del
\* Plugin.Del deleting the network before the endpoint.
Plugin_Del_NetworkFirst(b, w, x, cfg, args) ==
    LET c == config_New(cfg, args)
    IN  IF c.err # Nil
        THEN [w |-> w, err |-> "FailedToParseConfig", result |-> NoResult, steps |-> << >>]
        ELSE
        LET nw == [Plugin_Network(c.netConfig) EXCEPT !.IPAddress = NilIP,
                                                      !.GatewayIPAddress = << >>]
            n == nb_DeleteEndpoint(b, w, x, nw, Plugin_Endpoint(c.netConfig, args)).nw
        IN  IF ~n.ShouldExist
            THEN LET d == nb_DeleteNetwork(b, w, x, n)
                     e == nb_DeleteEndpoint(b, d.w, x, nw, Plugin_Endpoint(c.netConfig, args))
                 IN  [w |-> e.w,
                      err |-> IF d.err # Nil THEN "FailedToDeleteNetwork" ELSE Nil,
                      result |-> NoResult,
                      steps |-> <<<<"DeleteNetwork", d.err>>, <<"DeleteEndpoint", e.err>>>>]
            ELSE LET e == nb_DeleteEndpoint(b, w, x, nw, Plugin_Endpoint(c.netConfig, args))
                 IN  [w |-> e.w, err |-> Nil, result |-> NoResult,
                      steps |-> <<<<"DeleteEndpoint", e.err>>>>]

Plugin_Del(b, w, x, cfg, args) ==
    LET c == config_New(cfg, args)
    IN  IF c.err # Nil
        THEN [w |-> w, err |-> "FailedToParseConfig", result |-> NoResult, steps |-> << >>]
        ELSE
        LET nw == [Plugin_Network(c.netConfig) EXCEPT !.IPAddress = NilIP,
                                                      !.GatewayIPAddress = << >>]
            e == nb_DeleteEndpoint(b, w, x, nw, Plugin_Endpoint(c.netConfig, args))
        IN  IF ~e.nw.ShouldExist
            THEN LET d == nb_DeleteNetwork(b, e.w, x, e.nw)
                 IN  [w |-> d.w,
                      err |-> IF d.err # Nil THEN "FailedToDeleteNetwork" ELSE Nil,
                      result |-> NoResult,
                      steps |-> <<<<"DeleteEndpoint", e.err>>, <<"DeleteNetwork", d.err>>>>]
            ELSE [w |-> e.w, err |-> Nil, result |-> NoResult,
                  steps |-> <<<<"DeleteEndpoint", e.err>>>>]

----------------------------------------------------------------------------
(* The state machine: invocations of ADD and DEL, one at a time, against   *)
(* the Host Network Service.                                               *)

VARIABLES
    impl,         \* the builder the plugin was built with
    networks,     \* the HNS networks
    endpoints,    \* the HNS endpoints
    nsEndpoints,  \* the endpoint ids of each existing HCN namespace
    ifaces,       \* the host's vNICs
    last,         \* the last invocation: command, inputs, error, result, calls
    procs         \* the invocations running side by side, each with its position

vars == <<impl, networks, endpoints, nsEndpoints, ifaces, last, procs>>

Builders == {"NetBuilder", "netBuilder"}

\* The containers of the task: the infrastructure container Ctr1 and the
\* containers started after it.
NumContainers == 2
ContainerNames == <<"c1", "c2", "c3", "c4">>
Ctr1 == <<ContainerNames[1]>>
Ctr2 == <<ContainerNames[2]>>
Containers == {<<ContainerNames[i]>> : i \in 1..NumContainers}

NS1 == <<"ns1">>

MAC1 == <<"02", ":", "01">>
ENI0 == <<"eni0">>
IP1 == <<"10.0.0.5", "/", "24">>
GW1 == <<"10.0.0.1">>
ExtName == <<"ext">>
GoneName == <<"gone">>

CfgAdapter ==
    [Name |-> << >>, ENIName |-> ENI0, ENIMACAddress |-> MAC1, ENIIPAddress |-> IP1,
     GatewayIPAddress |-> GW1, NoInfraContainer |-> FALSE, UseExistingNetwork |-> FALSE]

CfgNoInfra == [CfgAdapter EXCEPT !.NoInfraContainer = TRUE]

CfgExisting(name) == [CfgAdapter EXCEPT !.UseExistingNetwork = TRUE, !.Name = name]

Arg(c, netns) == [ContainerID |-> c, Netns |-> netns]

\* The invocations: the configuration with the container and its netns.
Invocations ==
    {<<CfgAdapter, Arg(Ctr1, EmptyStr)>>,
     <<CfgAdapter, Arg(Ctr1, noneNetNS)>>,
     <<CfgAdapter, Arg(Ctr2, NS1)>>,
     <<[CfgAdapter EXCEPT !.ENIName = EmptyStr], Arg(Ctr1, EmptyStr)>>,
     <<CfgNoInfra, Arg(Ctr2, NS1)>>,
     <<CfgExisting(ExtName), Arg(Ctr1, EmptyStr)>>,
     <<CfgExisting(GoneName), Arg(Ctr1, EmptyStr)>>}
    \cup {<<CfgAdapter, Arg(c, containerPrefix \o Ctr1)>> : c \in Containers \ {Ctr1}}

\* What an invocation meets: the HNS version, the running containers and the
\* kind of call that fails.
Env(fault, ver, gone) == [fault |-> fault, ver |-> ver, running |-> Containers \ gone]

\* ADD meets nothing unusual, or one of its calls failing, or the invoking
\* container gone, or another HNS version.
AddFaults == {"NetCreate", "EpCreate", "Attach", "Disable"}

Versions == {[Major |-> 6, Minor |-> 3], [Major |-> 7, Minor |-> 1], [Major |-> 8, Minor |-> 0]}

AddEnvs(args) ==
    {Env("none", HnsDefaultMinVersion, {})}
    \cup {Env(f, HnsDefaultMinVersion, {}) : f \in AddFaults}
    \cup {Env("none", HnsDefaultMinVersion, {args.ContainerID})}
    \cup {Env("none", v, {}) : v \in Versions}

\* DEL meets nothing unusual, or one of its calls failing, or the invoking
\* container gone.
DelFaults == {"NetDelete", "EpDelete", "Detach"}

DelEnvs(args) ==
    {Env("none", HnsDefaultMinVersion, {})}
    \cup {Env(f, HnsDefaultMinVersion, {}) : f \in DelFaults}
    \cup {Env("none", HnsDefaultMinVersion, {args.ContainerID})}

World == [networks |-> networks, endpoints |-> endpoints, nsEndpoints |-> nsEndpoints,
          ifaces |-> ifaces, calls |-> << >>]

ExtNetwork == [Name |-> ExtName, NetworkAdapterName |-> <<"eni9">>, Gateway |-> GW1]

NoInvocation == [op |-> "none", cfg |-> CfgAdapter, args |-> Arg(Ctr1, EmptyStr),
                 err |-> Nil, result |-> NoResult, steps |-> << >>, calls |-> << >>]

Init ==
    /\ impl \in Builders
    /\ networks = {ExtNetwork}
    /\ endpoints = {}
    /\ nsEndpoints = [n \in {NS1} |-> {}]
    /\ ifaces = [i \in {vNICNameFormat(ExtNetwork.NetworkAdapterName)} |-> "down"]
    /\ last = NoInvocation
    /\ procs = << >>

Commit(op, cfg, args, r) ==
    /\ networks' = r.w.networks
    /\ endpoints' = r.w.endpoints
    /\ nsEndpoints' = r.w.nsEndpoints
    /\ ifaces' = r.w.ifaces
    /\ last' = [op |-> op, cfg |-> cfg, args |-> args, err |-> r.err,
                result |-> r.result, steps |-> r.steps, calls |-> r.w.calls]
    /\ UNCHANGED <<impl, procs>>

Add(cfg, args, x) == \E r \in {Plugin_Add(impl, World, x, cfg, args)} : Commit("ADD", cfg, args, r)

Del(cfg, args, x) == \E r \in {Plugin_Del(impl, World, x, cfg, args)} : Commit("DEL", cfg, args, r)

\* The runtime invokes again the ADD that has just succeeded.
AddAgain(x) ==
    /\ last.op = "ADD" /\ last.err = Nil
    /\ Add(last.cfg, last.args, x)

\* The plugin runs once for every invocation: the process of the invocation
\* that has returned exits, and the next invocation starts from what HNS
\* holds.
Exit ==
    /\ last.op # "none"
    /\ last' = NoInvocation
    /\ UNCHANGED <<impl, networks, endpoints, nsEndpoints, ifaces, procs>>

\* The owner of an external namespace removes it.
NamespaceRemove(ns) ==
    /\ ns \in DOMAIN nsEndpoints
    /\ nsEndpoints' = [n \in DOMAIN nsEndpoints \ {ns} |-> nsEndpoints[n]]
    /\ UNCHANGED <<impl, networks, endpoints, ifaces, last, procs>>

Next ==
    \/ last.op = "none" /\ \E i \in Invocations : \E x \in AddEnvs(i[2]) : Add(i[1], i[2], x)
    \/ last.op = "none" /\ \E i \in Invocations : \E x \in DelEnvs(i[2]) : Del(i[1], i[2], x)
    \/ \E x \in AddEnvs(last.args) : AddAgain(x)
    \/ Exit
    \/ \E ns \in {NS1} : NamespaceRemove(ns)

Spec == Init /\ [][Next]_vars

----------------------------------------------------------------------------
(* ADD and DEL of one task whose configuration changes its addresses       *)
(* between invocations: the ENI keeps its name and hardware address, the   *)
(* IP address and the gateway are others.                                  *)

IP2 == <<"10.0.0.9", "/", "24">>
GW2 == <<"10.0.0.2">>

CfgRenumbered == [CfgAdapter EXCEPT !.ENIIPAddress = IP2, !.GatewayIPAddress = GW2]

AddrInvocations ==
    {<<CfgAdapter, Arg(Ctr1, EmptyStr)>>,
     <<CfgRenumbered, Arg(Ctr1, EmptyStr)>>,
     <<CfgAdapter, Arg(Ctr2, NS1)>>,
     <<CfgRenumbered, Arg(Ctr2, NS1)>>,
     <<CfgRenumbered, Arg(Ctr2, containerPrefix \o Ctr1)>>}

NextAddr ==
    \/ last.op = "none" /\ \E i \in AddrInvocations : \E x \in AddEnvs(i[2]) : Add(i[1], i[2], x)
    \/ last.op = "none" /\ \E i \in AddrInvocations : \E x \in DelEnvs(i[2]) : Del(i[1], i[2], x)
    \/ Exit

SpecAddr == Init /\ [][NextAddr]_vars

----------------------------------------------------------------------------
(* ADD and DEL of a task with two ENIs in one external namespace: the       *)
(* plugin is invoked once for each ENI with the same netns, and each ENI    *)
(* has its network and its endpoint.  One invocation names its namespace    *)
(* by a reference that carries the container prefix.                        *)

MAC2 == <<"02", ":", "02">>
ENI1 == <<"eni1">>

CfgSecondENI ==
    [CfgNoInfra EXCEPT !.ENIName = ENI1, !.ENIMACAddress = MAC2, !.ENIIPAddress = IP2]

NsInvocations ==
    {<<CfgNoInfra, Arg(Ctr2, NS1)>>,
     <<CfgSecondENI, Arg(Ctr2, NS1)>>,
     <<CfgNoInfra, Arg(Ctr2, containerPrefix \o Ctr1)>>,
     <<CfgAdapter, Arg(Ctr1, EmptyStr)>>}

NextNs ==
    \/ last.op = "none" /\ \E i \in NsInvocations : \E x \in AddEnvs(i[2]) : Add(i[1], i[2], x)
    \/ last.op = "none" /\ \E i \in NsInvocations : \E x \in DelEnvs(i[2]) : Del(i[1], i[2], x)
    \/ Exit
    \/ \E ns \in DOMAIN nsEndpoints : NamespaceRemove(ns)

SpecNs == Init /\ [][NextNs]_vars

----------------------------------------------------------------------------
(* Two ADDs of one task run side by side: the runtime starts a plugin      *)
(* process for each container, and each process makes its calls to HNS one *)
(* after the other, ignorant of the other process.                         *)

NumProcs == 2

ConcInvocations ==
    {<<CfgAdapter, Arg(Ctr1, EmptyStr)>>,
     <<CfgAdapter, Arg(Ctr2, containerPrefix \o Ctr1)>>,
     <<CfgNoInfra, Arg(Ctr1, NS1)>>,
     <<CfgNoInfra, Arg(Ctr2, NS1)>>}

NoFault == Env("none", HnsDefaultMinVersion, {})

\* Plugin.Add up to its call of FindOrCreateNetwork.
ConcStart(i) ==
    [cfg |-> i[1], args |-> i[2], pc |-> "FindNetwork", findErr |-> Nil,
     nw |-> Plugin_Network(config_New(i[1], i[2]).netConfig),
     ep |-> Plugin_Endpoint(config_New(i[1], i[2]).netConfig, i[2]),
     err |-> Nil, stepErr |-> Nil, result |-> NoResult, calls |-> << >>]

InitConc ==
    /\ impl \in Builders
    /\ networks = {ExtNetwork}
    /\ endpoints = {}
    /\ nsEndpoints = [n \in {NS1} |-> {}]
    /\ ifaces = [i \in {vNICNameFormat(ExtNetwork.NetworkAdapterName)} |-> "down"]
    /\ last = NoInvocation
    /\ procs \in [1..NumProcs -> {ConcStart(i) : i \in ConcInvocations}]

\* Process i has made calls that left HNS as w, and goes on as p.
ConcCommit(i, w, p) ==
    /\ networks' = w.networks
    /\ endpoints' = w.endpoints
    /\ nsEndpoints' = w.nsEndpoints
    /\ ifaces' = w.ifaces
    /\ procs' = [procs EXCEPT ![i] = [p EXCEPT !.calls = procs[i].calls \o w.calls]]
    /\ UNCHANGED <<impl, last>>

\* Plugin.Add once FindOrCreateNetwork has returned n.
ConcAfterNetwork(i, n) ==
    ConcCommit(i, n.w,
        IF n.err # Nil
        THEN [procs[i] EXCEPT !.pc = "Done", !.err = "FailedToCreateFindNetwork",
                              !.stepErr = n.err]
        ELSE [procs[i] EXCEPT !.pc = "FindEndpoint", !.nw = n.nw])

\* Plugin.Add once FindOrCreateEndpoint has returned e.
ConcAfterEndpoint(i, e) ==
    ConcCommit(i, e.w,
        IF e.err # Nil
        THEN [procs[i] EXCEPT !.pc = "Done", !.err = "FailedToCreateFindEndpoint",
                              !.stepErr = e.err]
        ELSE [procs[i] EXCEPT !.pc = "Done",
                 !.result = [Mac |-> HardwareAddrString(e.ep.MACAddress),
                             Sandbox |-> procs[i].args.Netns,
                             Address |-> e.ep.IPAddress,
                             Gateway |-> e.nw.GatewayIPAddress]])

\* FindOrCreateNetwork up to the answer of GetHNSNetworkByName: a network
\* that is found is all of FindOrCreateNetwork.
ConcFindNetwork(i) ==
    /\ procs[i].pc = "FindNetwork"
    /\ LET nw1 == [procs[i].nw EXCEPT !.Name = nb_generateHNSNetworkName(impl, procs[i].nw)]
           f == GetHNSNetworkByName(World, nw1.Name)
       IN  IF CheckHNSVersion(NoFault, HnsDefaultMinVersion) # Nil \/ f.err = Nil
           THEN ConcAfterNetwork(i, nb_FindOrCreateNetwork(impl, World, NoFault, procs[i].nw))
           ELSE ConcCommit(i, f.w, [procs[i] EXCEPT !.pc = "CreateNetwork", !.nw = nw1,
                                                    !.findErr = f.err])

\* FindOrCreateNetwork from the request to create the network on.
ConcCreateNetwork(i) ==
    /\ procs[i].pc = "CreateNetwork"
    /\ ConcAfterNetwork(i,
           nb_HardenNetwork(impl, NoFault, procs[i].nw,
               FindOrCreateHNSNetworkCreate(World, NoFault,
                   nb_networkConfig(impl, procs[i].nw), procs[i].findErr)))

\* FindOrCreateEndpoint up to the answer of GetHNSEndpointByName: an
\* endpoint that is found is all of FindOrCreateEndpoint.
ConcFindEndpoint(i) ==
    /\ procs[i].pc = "FindEndpoint"
    /\ LET c == nb_hnsEndpoint(impl, procs[i].nw, procs[i].ep)
           f == GetHNSEndpointByName(World, c.h.Name)
       IN  IF c.err # Nil \/ f.err = Nil
           THEN ConcAfterEndpoint(i, nb_FindOrCreateEndpoint(impl, World, NoFault,
                                         procs[i].nw, procs[i].ep))
           ELSE ConcCommit(i, f.w, [procs[i] EXCEPT !.pc = "CreateEndpoint",
                                                    !.findErr = f.err])

\* FindOrCreateEndpoint from the request to create the endpoint on.
ConcCreateEndpoint(i) ==
    /\ procs[i].pc = "CreateEndpoint"
    /\ ConcAfterEndpoint(i,
           AttachFoundOrCreated(NoFault, procs[i].nw, procs[i].ep,
               FindOrCreateHNSEndpointCreate(World, NoFault,
                   nb_hnsEndpoint(impl, procs[i].nw, procs[i].ep).h, procs[i].findErr)))

NextConc ==
    \E i \in 1..NumProcs :
        \/ ConcFindNetwork(i)
        \/ ConcCreateNetwork(i)
        \/ ConcFindEndpoint(i)
        \/ ConcCreateEndpoint(i)

SpecConc == InitConc /\ [][NextConc]_vars

----------------------------------------------------------------------------
(* What the last invocation did.                                           *)

\* The calls of the last invocation of kind op.
CallsOf(op) == {i \in DOMAIN last.calls : last.calls[i][1] = op}

Issued(op) == CallsOf(op) # {}

\* The names on which the last invocation's call of kind op succeeded.
Done(op) == {last.calls[i][2] : i \in {j \in CallsOf(op) : last.calls[j][3] = Nil}}

\* The last invocation made the builder call step; the error of that call.
Stepped(step) == \E i \in DOMAIN last.steps : last.steps[i][1] = step

StepErr(step) ==
    IF Stepped(step)
    THEN last.steps[CHOOSE i \in DOMAIN last.steps : last.steps[i][1] = step][2]
    ELSE "NotCalled"

NetworkNames == {n.Name : n \in networks}

EndpointNames == {e.Name : e \in endpoints}

\* The name of the plugin-owned network of the adapter of a configuration.
OwnedNetworkName(cfg) == hnsNetworkNameFormat(ParseMAC(cfg.ENIMACAddress))

----------------------------------------------------------------------------
(* Claims.                                                                 *)

\* C1: when ADD has created an endpoint and returns the failure of the attach
\* that followed, no endpoint of that name exists in HNS any more, in the
\* container path and in the namespace path alike.
C1_AttachFailureLeavesNoEndpoint ==
    (last.op = "ADD" /\ last.err = "FailedToCreateFindEndpoint")
        => \A n \in Done("EpCreate") : n \notin EndpointNames

C4_SharedDelKeepsNetwork ==
    (last.op = "DEL" /\ last.steps # << >> /\ ~last.cfg.NoInfraContainer /\
     HasPrefix(last.args.Netns, containerPrefix))
        => ~Stepped("DeleteNetwork")

\* An ADD that succeeded is followed at once by an ADD of the same
\* configuration and arguments, against a supported HNS version.
IdenticalAddAgain ==
    /\ last.op = "ADD" /\ last.err = Nil
    /\ DOMAIN nsEndpoints' = DOMAIN nsEndpoints
    /\ last'.op = "ADD" /\ last'.cfg = last.cfg /\ last'.args = last.args
    /\ last'.steps[1] # <<"FindOrCreateNetwork", "VersionUnsupported">>

\* C3: the second of two identical ADDs issues no create call for the
\* network or the endpoint, leaves the networks and endpoints of HNS as they
\* were, succeeds, and returns the result of the first.
C3_AddIsIdempotent ==
    [][IdenticalAddAgain =>
        /\ \A i \in DOMAIN last'.calls : last'.calls[i][1] \notin {"NetCreate", "EpCreate"}
        /\ networks' = networks
        /\ endpoints' = endpoints
        /\ last'.err = Nil
        /\ last'.result = last.result]_vars

C3_Witness ==
    /\ last.op = "ADD" /\ last.err = Nil
    /\ last.cfg = CfgAdapter /\ last.args = Arg(Ctr1, EmptyStr)
    /\ ~Issued("NetCreate") /\ ~Issued("EpCreate")
    /\ Done("EpFind") = {hnsEndpointNameFormat(OwnedNetworkName(CfgAdapter), Ctr1)}
    /\ last.result.Mac = MAC1

\* The classification the specification gives a namespace reference: the
\* group an endpoint is named after.
GroupOf(containerID, netns) ==
    IF netns = EmptyStr \/ netns = noneNetNS THEN [kind |-> "infra", id |-> containerID]
    ELSE IF netns[1] = containerPrefix[1]
    THEN [kind |-> "shared", id |-> SubSeq(netns, 2, Len(netns))]
    ELSE [kind |-> "external", id |-> netns]

\* Namespace references of every shape.
NetnsRefs ==
    {EmptyStr, noneNetNS, NS1, containerPrefix, noneNetNS \o NS1, NS1 \o containerPrefix \o Ctr1}
    \cup {containerPrefix \o c : c \in Containers}

EndpointDescriptors ==
    {[ContainerID |-> c, NetNSName |-> n] : c \in Containers, n \in NetnsRefs}

\* The last invocation reached its endpoint step with a valid configuration.
ReachedEndpointStep ==
    /\ last.op \in {"ADD", "DEL"}
    /\ Stepped("FindOrCreateEndpoint") \/ Stepped("DeleteEndpoint")

EndpointStepErr ==
    IF last.op = "ADD" THEN StepErr("FindOrCreateEndpoint") ELSE StepErr("DeleteEndpoint")

\* The name of the network the endpoint step of the last invocation used.
EndpointStepNetwork ==
    IF last.cfg.UseExistingNetwork /\ impl = "NetBuilder"
    THEN last.cfg.Name
    ELSE OwnedNetworkName(last.cfg)

\* The endpoint step of the last invocation looked first for the endpoint
\* named after the group of its namespace reference.
UsedGroupOfReference ==
    /\ CallsOf("EpFind") # {}
    /\ \A i \in CallsOf("EpFind") :
          last.calls[i][2] = hnsEndpointNameFormat(EndpointStepNetwork,
                                 GroupOf(last.args.ContainerID, last.args.Netns).id)

\* C5 as stated: the classifier is total, never fails, and FindOrCreate and
\* Delete of an endpoint both name the endpoint after the group it returns.
C5_ClassifierNeverFails ==
    ReachedEndpointStep =>
        /\ EndpointStepErr # "FailedToParseNetns"
        /\ UsedGroupOfReference

\* C5: getNamespaceIdentifier is total and returns the infra, shared or
\* external group of every reference, and netBuilder's FindOrCreateEndpoint
\* and DeleteEndpoint name the endpoint after it.  getInfraContainerID
\* agrees on infra and shared references and fails to parse every other
\* one: NetBuilder's endpoint step then fails without a call to HNS, unless
\* the endpoint is marked NoInfraContainer and its reference names the
\* namespace.
C5_Classifier ==
    /\ \A ep \in EndpointDescriptors :
          LET g == GroupOf(ep.ContainerID, ep.NetNSName)
              c == netBuilder_getNamespaceIdentifier(ep)
              d == NetBuilder_getInfraContainerID(ep)
          IN  /\ c.id = g.id
              /\ c.nsType = (CASE g.kind = "infra" -> infraContainerNS
                               [] g.kind = "shared" -> nonInfraContainerNS
                               [] OTHER -> hcsNamespace)
              /\ (g.kind = "external") = (d.err # Nil)
              /\ g.kind # "external" =>
                    (d.infraContainerID = g.id /\ d.isInfraContainer = (g.kind = "infra"))
    /\ ReachedEndpointStep =>
          IF impl = "NetBuilder" /\ ~last.cfg.NoInfraContainer /\
             GroupOf(last.args.ContainerID, last.args.Netns).kind = "external"
          THEN EndpointStepErr = "FailedToParseNetns" /\ ~Issued("EpFind")
          ELSE EndpointStepErr # "FailedToParseNetns" /\ UsedGroupOfReference

C5_Witness ==
    /\ impl = "netBuilder"
    /\ last.op = "DEL" /\ last.args = Arg(Ctr2, NS1)
    /\ last.calls[1] = <<"EpFind", hnsEndpointNameFormat(OwnedNetworkName(last.cfg), NS1), Nil>>
    /\ \E i \in CallsOf("Detach") : last.calls[i][2][2] = NS1

\* The last invocation's configuration was rejected.
ConfigRejected == config_New(last.cfg, last.args).err # Nil

\* C7 as stated: a DEL that returns an error is one whose DeleteNetwork
\* step failed.
C7_DelFailsOnlyOnNetworkDelete ==
    (last.op = "DEL" /\ last.err # Nil)
        => (Stepped("DeleteNetwork") /\ StepErr("DeleteNetwork") # Nil)

\* C7: a DEL returns an error exactly when its configuration is rejected or
\* its DeleteNetwork step fails; with a valid configuration DeleteEndpoint is
\* called and, whether it fails or not, DEL goes on to the network decision.
C7_DelErrors ==
    last.op = "DEL" =>
        /\ (last.err # Nil) <=>
              \/ ConfigRejected
              \/ (Stepped("DeleteNetwork") /\ StepErr("DeleteNetwork") # Nil)
        /\ ~ConfigRejected => last.steps[1][1] = "DeleteEndpoint"
        /\ (~ConfigRejected /\ ~last.cfg.UseExistingNetwork /\
            GroupOf(last.args.ContainerID, last.args.Netns).kind # "shared")
              => Stepped("DeleteNetwork")

C7_Witness ==
    /\ last.op = "DEL"
    /\ StepErr("DeleteEndpoint") = HnsFault
    /\ Stepped("DeleteNetwork") /\ StepErr("DeleteNetwork") = Nil
    /\ Done("NetDelete") # {}
    /\ last.err = Nil

\* The DeleteNetwork step of the last DEL found no network of its name.
DeletedAbsentNetwork ==
    /\ last.op = "DEL" /\ Stepped("DeleteNetwork")
    /\ \E i \in CallsOf("NetFind") : last.calls[i][3] = ErrNotFound

\* C8 as stated: DeleteNetwork of a network that does not exist succeeds
\* and does nothing.
C8_DeleteAbsentNetworkSucceeds ==
    DeletedAbsentNetwork =>
        (StepErr("DeleteNetwork") = Nil /\ last.err = Nil /\ ~Issued("NetDelete"))

\* C8: DeleteNetwork of a network that does not exist issues no delete call
\* and returns the not-found error of the lookup, which DEL surfaces.
C8_DeleteAbsentNetworkFails ==
    DeletedAbsentNetwork =>
        /\ StepErr("DeleteNetwork") = ErrNotFound
        /\ last.err = "FailedToDeleteNetwork"
        /\ ~Issued("NetDelete")

C8_Witness ==
    /\ DeletedAbsentNetwork
    /\ last.cfg = CfgAdapter /\ last.args = Arg(Ctr1, EmptyStr)
    /\ OwnedNetworkName(CfgAdapter) \notin NetworkNames
    /\ last.err = "FailedToDeleteNetwork"

\* The endpoint of the task's infrastructure container on the owned network.
TaskNetwork == OwnedNetworkName(CfgAdapter)

TaskEndpoint == hnsEndpointNameFormat(TaskNetwork, Ctr1)

AttachedTo(name) == UNION {e.SharedContainers : e \in {f \in endpoints : f.Name = name}}

\* A DEL of these arguments takes place, and every call it issues succeeds.
CleanDel(args) ==
    /\ DOMAIN nsEndpoints' = DOMAIN nsEndpoints
    /\ last'.op = "DEL" /\ last'.cfg = CfgAdapter /\ last'.args = args
    /\ \A i \in DOMAIN last'.calls : last'.calls[i][3] = Nil

\* C9: with the infrastructure container c1 and the container c2 sharing
\* its namespace both added, DEL of c2 only detaches c2 and leaves the
\* endpoint and the network; DEL of c1 then deletes the endpoint and the
\* network.
C9_SharedTeardownOrder ==
    [][/\ (Ctr2 \in AttachedTo(TaskEndpoint) /\ Ctr1 \in AttachedTo(TaskEndpoint) /\
           TaskNetwork \in NetworkNames /\ CleanDel(Arg(Ctr2, containerPrefix \o Ctr1)))
          => /\ TaskEndpoint \in EndpointNames'
             /\ AttachedTo(TaskEndpoint)' = AttachedTo(TaskEndpoint) \ {Ctr2}
             /\ TaskNetwork \in NetworkNames'
       /\ (AttachedTo(TaskEndpoint) = {Ctr1} /\ TaskNetwork \in NetworkNames /\
           CleanDel(Arg(Ctr1, EmptyStr)))
          => /\ TaskEndpoint \notin EndpointNames'
             /\ TaskNetwork \notin NetworkNames']_vars

\* An ADD that is to use an existing network takes place when HNS has no
\* network of the name it was given, against a supported HNS version.
AddToMissingNetwork ==
    /\ DOMAIN nsEndpoints' = DOMAIN nsEndpoints
    /\ last'.op = "ADD" /\ last'.cfg.UseExistingNetwork
    /\ last'.cfg.Name \notin NetworkNames
    /\ last'.steps # << >>
    /\ last'.steps[1] # <<"FindOrCreateNetwork", "VersionUnsupported">>

\* C10: an ADD that is to use an existing network which does not exist
\* fails in FindOrCreateNetwork with the not-found error, and issues no
\* create call for a network or an endpoint.
C10_MissingNetworkFailsAdd ==
    [][AddToMissingNetwork =>
        /\ last'.steps = <<<<"FindOrCreateNetwork", ErrNotFound>>>>
        /\ last'.err = "FailedToCreateFindNetwork"
        /\ \A i \in DOMAIN last'.calls : last'.calls[i][1] \notin {"NetCreate", "EpCreate"}
        /\ networks' = networks /\ endpoints' = endpoints]_vars

\* The calls of kind op of process i that HNS answered with err.
ProcCalls(i, op, err) ==
    {k \in DOMAIN procs[i].calls : procs[i].calls[k][1] = op /\ procs[i].calls[k][3] = err}

\* Process i asked HNS to create what another process had created since i
\* looked for it.
Rejected(i, op) == ProcCalls(i, op, ErrAlreadyExists) # {}

\* C6 as stated: of two ADDs that both found nothing, the one whose create
\* call is rejected looks again and succeeds.
C6_RejectedCreatorSucceeds ==
    \A i \in DOMAIN procs :
        (procs[i].pc = "Done" /\ (Rejected(i, "NetCreate") \/ Rejected(i, "EpCreate")))
            => procs[i].err = Nil

\* The create call of kind op of process i is rejected: it is the last call
\* of i, which returns err for the rejection without looking again, while
\* another process has created the object.
RejectedCreatorFails(i, op, err) ==
    Rejected(i, op) =>
        /\ procs[i].pc = "Done"
        /\ procs[i].err = err
        /\ procs[i].stepErr = ErrAlreadyExists
        /\ ProcCalls(i, op, ErrAlreadyExists) = {Len(procs[i].calls)}
        /\ \E j \in DOMAIN procs \ {i} : \E k \in ProcCalls(j, op, Nil) :
              procs[j].calls[k][2] = procs[i].calls[Len(procs[i].calls)][2]

\* C6: of two ADDs that both found nothing, one creates the network (the
\* endpoint); the create call of the other is rejected and that ADD fails
\* with the rejection, without looking again.
C6_RejectedCreatorFails ==
    \A i \in DOMAIN procs :
        /\ RejectedCreatorFails(i, "NetCreate", "FailedToCreateFindNetwork")
        /\ RejectedCreatorFails(i, "EpCreate", "FailedToCreateFindEndpoint")

C6_Witness ==
    /\ DOMAIN procs # {}
    /\ \A i \in DOMAIN procs : procs[i].pc = "Done"
    /\ \E i \in DOMAIN procs : \E j \in DOMAIN procs :
          /\ Rejected(i, "NetCreate")
          /\ ProcCalls(i, "NetFind", ErrNotFound) # {}
          /\ ProcCalls(j, "NetFind", ErrNotFound) # {}
          /\ ProcCalls(j, "NetCreate", Nil) # {}
          /\ procs[j].err = Nil

\* The network step of the last ADD found its network.
AddFoundNetwork ==
    /\ last.op = "ADD" /\ last.calls # << >>
    /\ last.calls[1][1] = "NetFind" /\ last.calls[1][3] = Nil

\* C11: when FindOrCreateNetwork finds a network of the computed name it
\* succeeds and issues no create call, no hardening of the interface and no
\* delete call, whether the network was to exist or not.
C11_FoundNetworkIsLeftAlone ==
    AddFoundNetwork =>
        /\ StepErr("FindOrCreateNetwork") = Nil
        /\ ~Issued("NetCreate") /\ ~Issued("IfFind") /\ ~Issued("IfDisable")
        /\ ~Issued("NetDelete")
        /\ Cardinality(CallsOf("NetFind")) = 1

C11_Witness ==
    /\ AddFoundNetwork
    /\ ~last.cfg.UseExistingNetwork
    /\ last.calls[1][2] = OwnedNetworkName(last.cfg)
    /\ Stepped("FindOrCreateEndpoint")

\* The attachment mode of the last invocation.
ModeOfLast == GroupOf(last.args.ContainerID, last.args.Netns).kind

\* The first lookup of an endpoint the last invocation made.
FirstEpFind == CHOOSE i \in CallsOf("EpFind") : \A j \in CallsOf("EpFind") : i <= j

\* The endpoint step of the last ADD found its endpoint.
AddFoundEndpoint ==
    /\ last.op = "ADD" /\ Issued("EpFind")
    /\ last.calls[FirstEpFind][3] = Nil

\* C12: when FindOrCreateEndpoint finds the endpoint, an infra or
\* external-namespace invocation succeeds without an attach, create or
\* delete call, and a shared invocation issues exactly one attach call, of
\* that endpoint to the invoking container.
C12_FoundEndpoint ==
    AddFoundEndpoint =>
        /\ ~Issued("EpCreate") /\ ~Issued("EpDelete") /\ ~Issued("Detach")
        /\ Cardinality(CallsOf("EpFind")) = 1
        /\ IF ModeOfLast = "shared"
           THEN /\ Cardinality(CallsOf("Attach")) = 1
                /\ \A i \in CallsOf("Attach") :
                      /\ last.calls[i][2] = <<last.calls[FirstEpFind][2], last.args.ContainerID>>
                      /\ StepErr("FindOrCreateEndpoint") = last.calls[i][3]
                /\ ~Issued("NsList")
           ELSE /\ ~Issued("Attach") /\ ~Issued("NsList")
                /\ StepErr("FindOrCreateEndpoint") = Nil
                /\ last.err = Nil

C12_Witness ==
    /\ AddFoundEndpoint
    /\ last.args = Arg(Ctr2, containerPrefix \o Ctr1)
    /\ last.calls[1] = <<"NetFind", TaskNetwork, Nil>>
    /\ last.calls[FirstEpFind][2] = TaskEndpoint
    /\ Done("Attach") = {<<TaskEndpoint, Ctr2>>}
    /\ Ctr2 \in AttachedTo(TaskEndpoint)

\* The endpoint step of the last ADD found no endpoint of the derived name.
AddMissedEndpoint ==
    /\ last.op = "ADD" /\ Issued("EpFind")
    /\ last.calls[FirstEpFind][3] = ErrNotFound

\* After the first lookup the last ADD asked HNS to create the endpoint it
\* had looked for, and once that was created went on to attach it: to the
\* container, or to the namespace, whose members it lists first.
CreatedThenAttached(target) ==
    /\ Len(last.calls) > FirstEpFind
    /\ last.calls[FirstEpFind + 1][1] = "EpCreate"
    /\ last.calls[FirstEpFind + 1][2] = last.calls[FirstEpFind][2]
    /\ last.calls[FirstEpFind + 1][3] = Nil =>
          /\ Len(last.calls) > FirstEpFind + 1
          /\ \/ /\ target = "container"
                /\ last.calls[FirstEpFind + 2][1] = "Attach"
                /\ last.calls[FirstEpFind + 2][2] =
                      <<last.calls[FirstEpFind][2], last.args.ContainerID>>
             \/ /\ target = "namespace"
                /\ last.calls[FirstEpFind + 2][1] = "NsList"
                /\ last.calls[FirstEpFind + 2][2] = last.args.Netns

\* C13 as stated: when no endpoint of the derived name exists,
\* FindOrCreateEndpoint issues a create call and then an attach call in all
\* three modes, to the namespace in external-namespace mode and to the
\* container in infra and in shared mode.
C13_MissingEndpointIsCreated ==
    AddMissedEndpoint =>
        CreatedThenAttached(IF ModeOfLast = "external" THEN "namespace" ELSE "container")

\* C13: when no endpoint of the derived name exists, FindOrCreateEndpoint
\* issues a create call and then an attach call in infra mode (to the
\* container) and in external-namespace mode (to the namespace); in shared
\* mode it issues neither and fails, the endpoint being for the infra
\* container to create.
C13_MissingEndpoint ==
    AddMissedEndpoint =>
        IF ModeOfLast = "shared"
        THEN /\ ~Issued("EpCreate") /\ ~Issued("Attach") /\ ~Issued("NsList")
             /\ StepErr("FindOrCreateEndpoint") = "FailedToFindEndpoint"
             /\ last.err = "FailedToCreateFindEndpoint"
             /\ last.calls[FirstEpFind][2] \notin EndpointNames
        ELSE CreatedThenAttached(IF ModeOfLast = "external" THEN "namespace" ELSE "container")

C13_Witness ==
    /\ AddMissedEndpoint
    /\ last.args = Arg(Ctr2, containerPrefix \o Ctr1)
    /\ last.calls[FirstEpFind][2] = TaskEndpoint
    /\ Len(last.calls) = FirstEpFind
    /\ last.err = "FailedToCreateFindEndpoint"

\* The endpoint step of the last DEL found the endpoint it was to delete.
DelFoundEndpoint ==
    /\ last.op = "DEL" /\ Issued("EpFind")
    /\ last.calls[1] = <<"EpFind", last.calls[1][2], Nil>>

\* C14: DeleteEndpoint of an infra endpoint detaches the endpoint from the
\* container and then deletes the endpoint; when it succeeds no endpoint of
\* that name is left to find.
C14_InfraDelDetachesThenDeletes ==
    (DelFoundEndpoint /\ ModeOfLast = "infra" /\ StepErr("DeleteEndpoint") = Nil)
        => /\ last.calls[2][1] = "Detach"
           /\ last.calls[2][2] = <<last.calls[1][2], last.args.ContainerID>>
           /\ last.calls[2][3] \in {Nil, ErrComputeSystemDoesNotExist}
           /\ last.calls[3] = <<"EpDelete", last.calls[1][2], Nil>>
           /\ last.calls[1][2] \notin EndpointNames

C14_Witness ==
    /\ DelFoundEndpoint /\ ModeOfLast = "infra"
    /\ last.calls[1][2] = TaskEndpoint
    /\ last.calls[2] = <<"Detach", <<TaskEndpoint, Ctr1>>, Nil>>
    /\ Done("EpDelete") = {TaskEndpoint}
    /\ TaskEndpoint \notin EndpointNames

\* C15 as stated: DeleteEndpoint of a shared or external-namespace endpoint
\* only detaches: it issues no delete call for the endpoint, which is still
\* in HNS afterwards.
C15_OnlyInfraDelDeletesEndpoint ==
    (DelFoundEndpoint /\ ModeOfLast \in {"shared", "external"})
        => (~Issued("EpDelete") /\ last.calls[1][2] \in EndpointNames)

\* C15: DeleteEndpoint of a shared endpoint only detaches the container and
\* leaves the endpoint in HNS; DeleteEndpoint of an external-namespace
\* endpoint removes the endpoint from the namespace and, when that has
\* succeeded, deletes the endpoint.
C15_SharedDelOnlyDetaches ==
    DelFoundEndpoint =>
        /\ ModeOfLast = "shared" =>
              /\ ~Issued("EpDelete")
              /\ last.calls[1][2] \in EndpointNames
              /\ last.calls[2][1] = "Detach"
              /\ last.calls[2][2] = <<last.calls[1][2], last.args.ContainerID>>
        /\ ModeOfLast = "external" =>
              /\ last.calls[2][1] = "Detach"
              /\ last.calls[2][2] = <<last.calls[1][2], last.args.Netns>>
              /\ IF last.calls[2][3] = Nil
                 THEN /\ last.calls[3][1] = "EpDelete"
                      /\ last.calls[3][2] = last.calls[1][2]
                      /\ last.calls[3][3] = Nil => last.calls[1][2] \notin EndpointNames
                 ELSE ~Issued("EpDelete") /\ last.calls[1][2] \in EndpointNames

C15_Witness ==
    /\ DelFoundEndpoint /\ ModeOfLast = "external"
    /\ last.calls[2] = <<"Detach", <<last.calls[1][2], NS1>>, Nil>>
    /\ Done("EpDelete") = {last.calls[1][2]}
    /\ last.calls[1][2] \notin EndpointNames

\* The detach of the last DEL failed because the container or the namespace
\* was no longer there.
DetachMetGoneWorkload ==
    /\ DelFoundEndpoint /\ Len(last.calls) >= 2
    /\ last.calls[2][1] = "Detach"
    /\ last.calls[2][3] \in {ErrComputeSystemDoesNotExist, ErrNamespaceNotFound}

\* C16: in DeleteEndpoint a detach that fails because the container or the
\* namespace no longer exists is tolerated in every mode: the remaining
\* steps are taken (the endpoint is deleted unless the mode is shared) and
\* the failure is not returned; every other failure of the detach is
\* returned.
C16_GoneWorkloadIsTolerated ==
    /\ DetachMetGoneWorkload =>
          IF ModeOfLast = "shared"
          THEN StepErr("DeleteEndpoint") = Nil
          ELSE /\ Len(last.calls) >= 3
               /\ last.calls[3][1] = "EpDelete"
               /\ StepErr("DeleteEndpoint") = last.calls[3][3]
    /\ (DelFoundEndpoint /\ Len(last.calls) >= 2 /\ last.calls[2][1] = "Detach" /\
        last.calls[2][3] \notin {Nil, ErrComputeSystemDoesNotExist, ErrNamespaceNotFound})
          => StepErr("DeleteEndpoint") = last.calls[2][3]

\* C17: when the network step of ADD succeeds and the endpoint step fails,
\* ADD returns the failure and issues no delete call for the network, which
\* is still in HNS afterwards.
C17_EndpointFailureKeepsNetwork ==
    (last.op = "ADD" /\ Stepped("FindOrCreateEndpoint") /\
     StepErr("FindOrCreateEndpoint") # Nil)
        => /\ last.err = "FailedToCreateFindEndpoint"
           /\ StepErr("FindOrCreateNetwork") = Nil
           /\ ~Issued("NetDelete")
           /\ last.calls[1][1] = "NetFind"
           /\ last.calls[1][2] \in NetworkNames

C17_Witness ==
    /\ last.op = "ADD" /\ last.err = "FailedToCreateFindEndpoint"
    /\ Done("NetCreate") = {TaskNetwork}
    /\ \E i \in CallsOf("EpCreate") : last.calls[i][3] = HnsFault
    /\ TaskNetwork \in NetworkNames
    /\ TaskEndpoint \notin EndpointNames

\* C18: an ADD or DEL whose configuration marks the network as one that
\* must already exist issues no network create and no network delete call,
\* and leaves the set of networks in HNS as it was.
C18_ExistingNetworkIsNeverCreatedOrDeleted ==
    [][(last'.op \in {"ADD", "DEL"} /\ last'.cfg.UseExistingNetwork)
         => /\ \A i \in 1..Len(last'.calls) :
                  last'.calls[i][1] \notin {"NetCreate", "NetDelete"}
            /\ networks' = networks]_vars

\* The name the specification gives the network of a configuration.
ClaimedNetworkName(cfg) ==
    IF cfg.UseExistingNetwork THEN cfg.Name ELSE OwnedNetworkName(cfg)

\* C19: the network name an invocation uses is the caller-supplied name when
\* the configuration marks the network as one that must already exist, and
\* otherwise the template applied to the adapter's hardware address without
\* its separators; ADD and DEL of one configuration use the same name, in
\* the network calls and as the stem of the endpoint name alike.
C19_NetworkNameFollowsConfiguration ==
    last.op \in {"ADD", "DEL"} =>
        \A i \in 1..Len(last.calls) :
            /\ last.calls[i][1] \in {"NetFind", "NetCreate", "NetDelete"}
                  => last.calls[i][2] = ClaimedNetworkName(last.cfg)
            /\ last.calls[i][1] \in {"EpFind", "EpCreate", "EpDelete"}
                  => HasPrefix(last.calls[i][2], ClaimedNetworkName(last.cfg))

\* Every endpoint in HNS is on a network that is in HNS.
EveryEndpointHasItsNetwork ==
    \A e \in endpoints : e.VirtualNetworkName \in NetworkNames

\* The invocation of this step, if it is the DEL of an infrastructure
\* container, comes after the DELs of the containers sharing its namespace.
InfraDelComesLast ==
    (last'.op = "DEL" /\ GroupOf(last'.args.ContainerID, last'.args.Netns).kind = "infra")
        => \A e \in endpoints : e.SharedContainers \subseteq {last'.args.ContainerID}

\* C20: as long as the infra DEL of a task comes after the DELs of its
\* shared containers, every endpoint in HNS is on a network that still
\* exists: no DEL and no rollback deletes a network and leaves an endpoint
\* of that network behind, a DEL whose DeleteEndpoint failed included.
C20_NoEndpointOutlivesItsNetwork ==
    [][(EveryEndpointHasItsNetwork /\ InfraDelComesLast)
          => EveryEndpointHasItsNetwork']_vars

\* C21: with the NoInfraContainer flag set, FindOrCreateEndpoint and
\* DeleteEndpoint work on the endpoint named after the namespace reference
\* itself and attach it to, or detach it from, the namespace of that name,
\* whatever the reference looks like, and DEL goes on to DeleteNetwork.
C21_NoInfraContainerForcesNamespace ==
    (ReachedEndpointStep /\ last.cfg.NoInfraContainer) =>
        /\ EndpointStepErr # "FailedToParseNetns"
        /\ CallsOf("EpFind") # {}
        /\ \A i \in 1..Len(last.calls) :
              /\ last.calls[i][1] \in {"EpFind", "EpCreate", "EpDelete"}
                    => last.calls[i][2] =
                          hnsEndpointNameFormat(EndpointStepNetwork, last.args.Netns)
              /\ last.calls[i][1] \in {"Attach", "Detach"}
                    => last.calls[i][2][2] = last.args.Netns
        /\ (last.op = "DEL" /\ ~last.cfg.UseExistingNetwork) => Stepped("DeleteNetwork")

\* The last invocation reached its endpoint step with a namespace reference
\* that is not empty, not "none" and not prefixed, and without the
\* NoInfraContainer flag.
UnrecognisedReference ==
    /\ ReachedEndpointStep
    /\ ~last.cfg.NoInfraContainer
    /\ GroupOf(last.args.ContainerID, last.args.Netns).kind = "external"

\* The endpoint step of the last invocation failed to classify the reference
\* and issued no endpoint call.
ClassificationFailed ==
    /\ EndpointStepErr = "FailedToParseNetns"
    /\ \A i \in 1..Len(last.calls) :
          last.calls[i][1] \notin {"EpFind", "EpCreate", "EpDelete", "Attach", "Detach"}

\* C22 as stated: an unrecognised reference is reported as a classification
\* failure by the endpoint step, which issues no endpoint call.
C22_UnrecognisedReferenceFails ==
    UnrecognisedReference => ClassificationFailed

\* C22: NetBuilder's endpoint step reports an unrecognised reference as a
\* classification failure and issues no endpoint call; netBuilder's endpoint
\* step takes the reference for the name of a namespace and goes on to look
\* for the endpoint named after it.
C22_UnrecognisedReference ==
    UnrecognisedReference =>
        IF impl = "NetBuilder"
        THEN ClassificationFailed
        ELSE /\ EndpointStepErr # "FailedToParseNetns"
             /\ CallsOf("EpFind") # {}
             /\ last.calls[FirstEpFind][2] =
                   hnsEndpointNameFormat(EndpointStepNetwork, last.args.Netns)
             /\ \A i \in CallsOf("Attach") \cup CallsOf("Detach") :
                   last.calls[i][2][2] = last.args.Netns

C22_Witness ==
    /\ impl = "NetBuilder"
    /\ UnrecognisedReference /\ ClassificationFailed
    /\ last.op = "ADD" /\ last.args = Arg(Ctr2, NS1)
    /\ last.err = "FailedToCreateFindEndpoint"
    /\ Done("NetCreate") = {TaskNetwork}

\* The management vNIC of every network in HNS that carries a name the
\* plugin gives is in the host compartment and disabled.
OwnedNetworksAreHardened ==
    \A n \in networks :
        HasPrefix(n.Name, hnsNetworkNameFormat(EmptyStr)) =>
            /\ vNICNameFormat(n.NetworkAdapterName) \in DOMAIN ifaces
            /\ ifaces[vNICNameFormat(n.NetworkAdapterName)] = "down"

OlderThanMinimum(ver) ==
    \/ ver.Major < HnsDefaultMinVersion.Major
    \/ ver.Major = HnsDefaultMinVersion.Major /\ ver.Minor < HnsDefaultMinVersion.Minor

\* C24: an ADD whose configuration is accepted fails in FindOrCreateNetwork
\* with the version error exactly when the host's HNS is older than the
\* minimum (major lower, or major equal and minor lower), and it then has
\* issued no call and left networks, endpoints, namespaces and interfaces
\* as they were.  It is stated of every invocation that may start: where
\* none is under way.
C24_VersionIsCheckedFirst ==
    last.op = "none" => \A i \in Invocations : \A x \in AddEnvs(i[2]) :
        LET r == Plugin_Add(impl, World, x, i[1], i[2])
        IN  config_New(i[1], i[2]).err = Nil =>
               /\ OlderThanMinimum(x.ver) <=>
                     (r.steps = <<<<"FindOrCreateNetwork", "VersionUnsupported">>>>)
               /\ OlderThanMinimum(x.ver) =>
                     /\ r.err = "FailedToCreateFindNetwork"
                     /\ r.w = World

\* An ADD on a host with too old an HNS has failed where a network and an
\* endpoint exist, without a call.
C24_Witness ==
    /\ last.op = "ADD"
    /\ last.steps = <<<<"FindOrCreateNetwork", "VersionUnsupported">>>>
    /\ last.calls = << >>
    /\ TaskNetwork \in NetworkNames /\ TaskEndpoint \in EndpointNames

\* Configurations with every combination of missing fields and flags, the
\* fields that are present being well-formed, with and without a netns.
FieldCombinations ==
    {<<[Name |-> n, ENIName |-> e, ENIMACAddress |-> m, ENIIPAddress |-> a,
        GatewayIPAddress |-> g, NoInfraContainer |-> f, UseExistingNetwork |-> u],
       Arg(Ctr2, ns)>> :
        n \in {EmptyStr, ExtName}, e \in {EmptyStr, ENI0}, m \in {EmptyStr, MAC1},
        a \in {EmptyStr, IP1}, g \in {EmptyStr, GW1}, f \in BOOLEAN, u \in BOOLEAN,
        ns \in {EmptyStr, NS1}}

\* The combinations of missing fields the specification has rejected.
MissingRequiredField(cfg, args) ==
    \/ cfg.UseExistingNetwork /\ cfg.Name = EmptyStr
    \/ ~cfg.UseExistingNetwork /\
          (cfg.ENIName = EmptyStr \/ cfg.ENIMACAddress = EmptyStr \/ cfg.ENIIPAddress = EmptyStr)
    \/ cfg.NoInfraContainer /\ args.Netns = EmptyStr

\* C25: config.New rejects a configuration with well-formed fields exactly
\* when it uses an existing network and has no network name, or creates the
\* network and lacks the ENI name, MAC address or IP address, or has no
\* infra container and an empty netns; ADD and DEL of a rejected
\* configuration return the parse error, issue no call and change nothing.
\* The invocations are those that may start: where none is under way.
C25_MissingFieldsAreRejected ==
    last.op = "none" => \A i \in FieldCombinations :
        /\ (config_New(i[1], i[2]).err # Nil) <=> MissingRequiredField(i[1], i[2])
        /\ MissingRequiredField(i[1], i[2]) =>
              \A r \in {Plugin_Add(impl, World, NoFault, i[1], i[2]),
                        Plugin_Del(impl, World, NoFault, i[1], i[2])} :
                  /\ r.err = "FailedToParseConfig"
                  /\ r.steps = << >>
                  /\ r.w = World

\* An ADD without the ENI name has been rejected where a network exists.
C25_Witness ==
    /\ last.op = "ADD" /\ last.err = "FailedToParseConfig"
    /\ last.cfg.ENIName = EmptyStr /\ ~last.cfg.UseExistingNetwork
    /\ last.calls = << >> /\ last.steps = << >>
    /\ TaskNetwork \in NetworkNames

\* The calls of the last invocation that concern the network and its vNIC,
\* and those that concern the endpoint.
NetworkCalls ==
    {i \in 1..Len(last.calls) :
        last.calls[i][1] \in {"NetFind", "NetCreate", "NetDelete", "IfFind", "IfDisable"}}

EndpointCalls ==
    {i \in 1..Len(last.calls) :
        last.calls[i][1] \in {"EpFind", "EpCreate", "EpDelete", "NsList", "Attach", "Detach"}}

\* C26: in an ADD, endpoint calls are issued only once FindOrCreateNetwork
\* has returned success, after all of its calls; in a DEL, DeleteNetwork
\* comes after DeleteEndpoint has returned, and its calls after all of
\* DeleteEndpoint's.
C26_NetworkThenEndpointAndBack ==
    /\ last.op = "ADD" =>
          /\ EndpointCalls # {} =>
                (Len(last.steps) = 2 /\ last.steps[1] = <<"FindOrCreateNetwork", Nil>>
                 /\ last.steps[2][1] = "FindOrCreateEndpoint")
          /\ \A i \in NetworkCalls : \A j \in EndpointCalls : i < j
    /\ last.op = "DEL" =>
          /\ Stepped("DeleteNetwork") =>
                (Len(last.steps) = 2 /\ last.steps[1][1] = "DeleteEndpoint"
                 /\ last.steps[2][1] = "DeleteNetwork")
          /\ NetworkCalls # {} => Stepped("DeleteNetwork")
          /\ \A i \in NetworkCalls : \A j \in EndpointCalls : j < i

\* A DEL has found, detached and deleted the endpoint and then found and
\* deleted the network.
C26_Witness ==
    /\ last.op = "DEL" /\ last.err = Nil
    /\ Len(last.calls) = 5
    /\ last.calls[1][1] = "EpFind" /\ last.calls[2][1] = "Detach"
    /\ last.calls[3][1] = "EpDelete" /\ last.calls[4][1] = "NetFind"
    /\ last.calls[5] = <<"NetDelete", TaskNetwork, Nil>>

\* The calls that change the state of HNS.
MutatingCalls == {"NetCreate", "NetDelete", "EpCreate", "Attach", "Detach", "EpDelete"}

\* No mutating call is issued twice in the last invocation.
AttemptedAtMostOnce ==
    \A i, j \in 1..Len(last.calls) :
        (last.calls[i][1] \in MutatingCalls /\ last.calls[i][1] = last.calls[j][1]) => i = j

\* The calls of the last invocation that failed; a find that reports
\* not-found is an answer, not a failure.
FailedCalls ==
    {i \in 1..Len(last.calls) :
        last.calls[i][3] # Nil /\ last.calls[i][1] \notin {"NetFind", "EpFind"}}

FirstFailure == CHOOSE i \in FailedCalls : \A j \in FailedCalls : i <= j

\* What the last invocation issued after its first failure is the deletion
\* of the network it created and could not harden, or the deletion of the
\* endpoint it created and could not attach, or nothing.
OnlyCompensationFollowsFailure ==
    FailedCalls # {} =>
        \A j \in (FirstFailure + 1)..Len(last.calls) :
            \/ /\ last.calls[FirstFailure][1] \in {"IfFind", "IfDisable"}
               /\ last.calls[j][1] \in {"NetFind", "NetDelete"}
               /\ last.calls[j][2] \in Done("NetCreate")
            \/ /\ last.calls[FirstFailure][1] \in {"NsList", "Attach"}
               /\ \/ last.calls[j][1] \in {"EpFind", "EpDelete"} /\
                     last.calls[j][2] \in Done("EpCreate")
                  \/ last.calls[j][1] = "Detach" /\ last.calls[j][2][1] \in Done("EpCreate")

\* C27 as stated: in an ADD or a DEL no mutating call is issued twice, and
\* after a failure nothing is issued but one of the two compensating
\* deletions.
C27_OnceAndOnlyCompensation ==
    last.op \in {"ADD", "DEL"} => (AttemptedAtMostOnce /\ OnlyCompensationFollowsFailure)

\* C27: in an ADD or a DEL no mutating call is issued twice.  In an ADD
\* nothing follows a failure but the deletion of the network or endpoint
\* just created.  In a DEL the teardown goes on after a failure: the
\* endpoint is deleted after a detach that met a container that is gone,
\* and the network is looked up and deleted after DeleteEndpoint failed.
C27_OnceAndTeardownGoesOn ==
    /\ last.op \in {"ADD", "DEL"} => AttemptedAtMostOnce
    /\ last.op = "ADD" => OnlyCompensationFollowsFailure
    /\ (last.op = "DEL" /\ FailedCalls # {}) =>
          \A j \in (FirstFailure + 1)..Len(last.calls) :
              \/ /\ last.calls[j][1] = "EpDelete"
                 /\ last.calls[FirstFailure][1] = "Detach"
                 /\ last.calls[FirstFailure][3] = ErrComputeSystemDoesNotExist
              \/ /\ last.calls[j][1] \in {"NetFind", "NetDelete"}
                 /\ Stepped("DeleteNetwork")

\* An ADD has created an endpoint, failed once to attach it and deleted it.
C27_Witness ==
    /\ last.op = "ADD" /\ FailedCalls # {}
    /\ last.calls[FirstFailure][1] = "Attach"
    /\ Cardinality(CallsOf("Attach")) = 1
    /\ \E j \in CallsOf("EpDelete") :
          j > FirstFailure /\ last.calls[j][3] = Nil /\ last.calls[j][2] \in Done("EpCreate")

\* The endpoint the last ADD looked for, as HNS holds it.
EndpointOfLastAdd ==
    {e \in endpoints : CallsOf("EpFind") # {} /\ e.Name = last.calls[FirstEpFind][2]}

\* C28: the hardware address, the IP address with its prefix length and the
\* gateway in the result of a successful ADD are those HNS holds for the
\* endpoint, after a create and after a find alike, whatever addresses the
\* request carried.
C28_ResultCarriesRecordedAddresses ==
    (last.op = "ADD" /\ last.err = Nil) =>
        \E e \in EndpointOfLastAdd :
            /\ last.result.Mac = HardwareAddrString(ParseMAC(e.MacAddress))
            /\ last.result.Address = e.IPAddress
            /\ last.result.Gateway = e.GatewayAddress

\* An ADD whose configuration carries other addresses than the endpoint it
\* found has returned the endpoint's.
C28_Witness ==
    /\ last.op = "ADD" /\ last.err = Nil
    /\ last.cfg = CfgRenumbered
    /\ ~Issued("EpCreate")
    /\ last.result.Address = GetIPAddressFromString(IP1)
    /\ last.result.Gateway = GW1
    /\ last.result.Address # config_New(last.cfg, last.args).netConfig.ENIIPAddress

\* The namespaces the attach step of the invocation that ends in last has
\* listed with success.
ListedNamespaces ==
    {last.calls[i][2] : i \in {j \in CallsOf("NsList") : last.calls[j][3] = Nil}}

\* C29: when the attach step of an ADD has listed the endpoints of the
\* target namespace, it leaves out the call that adds the endpoint exactly
\* when the endpoint is one of them; when the namespace holds other
\* endpoints only, or none, it issues the call.
C29_AttachSkipsOnlyForMember ==
    [][(last'.op = "ADD" /\ DOMAIN nsEndpoints' = DOMAIN nsEndpoints)
         => \A ns \in ListedNamespaces' :
               (CallsOf("Attach")' = {}) <=>
                   (last'.calls[FirstEpFind'][2] \in nsEndpoints[ns])]_vars

\* C30: whenever an ADD has returned success, whatever ADDs and DELs came
\* before it, the endpoint it looked for is in HNS and attached to its
\* target: to the namespace of the reference in external-namespace mode, to
\* the invoking container in infra and shared mode.
C30_SuccessfulAddMeansAttached ==
    (last.op = "ADD" /\ last.err = Nil) =>
        \E e \in EndpointOfLastAdd :
            IF last.cfg.NoInfraContainer \/ ModeOfLast = "external"
            THEN /\ last.args.Netns \in DOMAIN nsEndpoints
                 /\ e.Name \in nsEndpoints[last.args.Netns]
            ELSE last.args.ContainerID \in e.SharedContainers

\* The last ADD found the endpoint of the task for a container that shares
\* the namespace of the infrastructure container, and its attach failed.
SharedAttachFailed ==
    /\ AddFoundEndpoint /\ ModeOfLast = "shared"
    /\ \E i \in CallsOf("Attach") : last.calls[i][3] # Nil

\* C31: when FindOrCreateEndpoint has found the endpoint and the attach of a
\* shared container fails, ADD returns the attach error and HNS holds the
\* endpoints it held before, attached to the containers they were attached
\* to: no endpoint delete and no detach is issued.
C31_FoundEndpointSurvivesAttachFailure ==
    [][SharedAttachFailed' =>
          /\ last'.err = "FailedToCreateFindEndpoint"
          /\ \E i \in CallsOf("Attach")' : StepErr("FindOrCreateEndpoint")' = last'.calls[i][3]
          /\ CallsOf("EpDelete")' = {} /\ CallsOf("Detach")' = {}
          /\ endpoints' = endpoints]_vars

C31_Witness ==
    /\ SharedAttachFailed
    /\ last.args = Arg(Ctr2, containerPrefix \o Ctr1)
    /\ last.err = "FailedToCreateFindEndpoint"
    /\ TaskEndpoint \in EndpointNames
    /\ AttachedTo(TaskEndpoint) = {Ctr1}

----------------------------------------------------------------------------
\* Two ADD invocations interleaved while one of them hardens the network it
\* has created: FindOrCreateNetwork is split at its calls to HNS and to the
\* interface, and the disabling of the management vNIC of an invocation may
\* fail.

\* Plugin.Add up to its call of FindOrCreateNetwork, in an invocation whose
\* faults are of kind f.
HardenStart(i, f) ==
    [k \in DOMAIN ConcStart(i) \cup {"fault"} |->
        IF k = "fault" THEN f ELSE ConcStart(i)[k]]

HardenEnv(i) == Env(procs[i].fault, HnsDefaultMinVersion, {})

InitHarden ==
    /\ impl \in Builders
    /\ networks = {ExtNetwork}
    /\ endpoints = {}
    /\ nsEndpoints = [n \in {NS1} |-> {}]
    /\ ifaces = [i \in {vNICNameFormat(ExtNetwork.NetworkAdapterName)} |-> "down"]
    /\ last = NoInvocation
    /\ procs \in [1..NumProcs ->
                    {HardenStart(i, f) : i \in ConcInvocations, f \in {"none", "Disable"}}]

\* FindOrCreateNetwork up to the answer of GetHNSNetworkByName.
HardenFindNetwork(i) ==
    /\ procs[i].pc = "FindNetwork"
    /\ LET nw1 == [procs[i].nw EXCEPT !.Name = nb_generateHNSNetworkName(impl, procs[i].nw)]
           f == GetHNSNetworkByName(World, nw1.Name)
       IN  IF CheckHNSVersion(HardenEnv(i), HnsDefaultMinVersion) # Nil \/ f.err = Nil
           THEN ConcAfterNetwork(i, nb_FindOrCreateNetwork(impl, World, HardenEnv(i),
                                                           procs[i].nw))
           ELSE ConcCommit(i, f.w, [procs[i] EXCEPT !.pc = "CreateNetwork", !.nw = nw1,
                                                    !.findErr = f.err])

\* FindOrCreateNetwork from the request to create the network up to the
\* answer of HNS: a network that was created is hardened next.
HardenCreateNetwork(i) ==
    /\ procs[i].pc = "CreateNetwork"
    /\ LET r == FindOrCreateHNSNetworkCreate(World, HardenEnv(i),
                    nb_networkConfig(impl, procs[i].nw), procs[i].findErr)
       IN  IF r.err # Nil \/ r.existing
           THEN ConcAfterNetwork(i, nb_HardenNetwork(impl, HardenEnv(i), procs[i].nw, r))
           ELSE ConcCommit(i, r.w, [procs[i] EXCEPT !.pc = "DisableInterface"])

\* FindOrCreateNetwork disabling the management vNIC of the network it has
\* created.
HardenDisableInterface(i) ==
    /\ procs[i].pc = "DisableInterface"
    /\ LET d == disableInterface(World, HardenEnv(i),
                                 vNICNameFormat(procs[i].nw.ENI.linkName))
       IN  IF d.err # Nil
           THEN ConcCommit(i, d.w, [procs[i] EXCEPT !.pc = "DeleteNetwork",
                                                    !.stepErr = d.err])
           ELSE ConcAfterNetwork(i, [w |-> d.w, err |-> Nil, nw |-> procs[i].nw])

\* FindOrCreateNetwork deleting the network whose vNIC it could not disable,
\* and returning the error of the disabling.
HardenDeleteNetwork(i) ==
    /\ procs[i].pc = "DeleteNetwork"
    /\ ConcAfterNetwork(i, [w |-> nb_DeleteNetwork(impl, World, HardenEnv(i), procs[i].nw).w,
                            err |-> procs[i].stepErr, nw |-> procs[i].nw])

\* Plugin.Add from its call of FindOrCreateEndpoint on.
HardenEndpoint(i) ==
    /\ procs[i].pc = "FindEndpoint"
    /\ ConcAfterEndpoint(i, nb_FindOrCreateEndpoint(impl, World, HardenEnv(i),
                                                    procs[i].nw, procs[i].ep))

NextHarden ==
    \E i \in 1..NumProcs :
        \/ HardenFindNetwork(i)
        \/ HardenCreateNetwork(i)
        \/ HardenDisableInterface(i)
        \/ HardenDeleteNetwork(i)
        \/ HardenEndpoint(i)

SpecHarden == InitHarden /\ [][NextHarden]_vars

\* Process i has returned success from an ADD that found its network.
SucceededOnFoundNetwork(i) ==
    /\ procs[i].pc = "Done" /\ procs[i].err = Nil
    /\ ProcCalls(i, "NetFind", Nil) # {}

\* C32: with two ADDs for the same adapter interleaved, the network that a
\* successful ADD found and put its endpoint on is still there: the rollback
\* of the other ADD's hardening has not deleted it.
C32_UsedNetworkIsNotRolledBack ==
    \A i \in DOMAIN procs :
        SucceededOnFoundNetwork(i) =>
            nb_hnsEndpoint(impl, procs[i].nw, procs[i].ep).h.VirtualNetworkName
                \in NetworkNames

----------------------------------------------------------------------------
\* The life of one task on a network the plugin owns: every container of the
\* task is ADDed, then every container is DELed once, in any order, and no
\* call to HNS fails.

\* What the netns of container c of the task may be: the first container
\* is the infrastructure container or has an external namespace, the others
\* share the namespace of the first or have the external namespace.
TaskNetNS(c) == IF c = Ctr1 THEN {EmptyStr, NS1} ELSE {containerPrefix \o Ctr1, NS1}

InitTask ==
    /\ impl \in Builders
    /\ networks = {ExtNetwork}
    /\ endpoints = {}
    /\ nsEndpoints = [n \in {NS1} |-> {}]
    /\ ifaces = [i \in {vNICNameFormat(ExtNetwork.NetworkAdapterName)} |-> "down"]
    /\ last = NoInvocation
    /\ \E cfg \in {CfgAdapter, CfgNoInfra} : \E m \in [Containers -> UNION {TaskNetNS(c) : c \in Containers}] :
          /\ \A c \in Containers : m[c] \in TaskNetNS(c)
          /\ procs = [c \in Containers |->
                       [cfg |-> cfg, args |-> Arg(c, m[c]), pc |-> "ToAdd",
                        addErr |-> Nil, delErr |-> Nil]]

\* The invocation op for container c has returned r.
TaskCommit(op, c, r, p) ==
    /\ networks' = r.w.networks
    /\ endpoints' = r.w.endpoints
    /\ nsEndpoints' = r.w.nsEndpoints
    /\ ifaces' = r.w.ifaces
    /\ last' = [op |-> op, cfg |-> procs[c].cfg, args |-> procs[c].args, err |-> r.err,
                result |-> r.result, steps |-> r.steps, calls |-> r.w.calls]
    /\ procs' = [procs EXCEPT ![c] = p]
    /\ UNCHANGED impl

TaskAdd(c) ==
    /\ procs[c].pc = "ToAdd"
    /\ \E r \in {Plugin_Add(impl, World, NoFault, procs[c].cfg, procs[c].args)} :
          TaskCommit("ADD", c, r, [procs[c] EXCEPT !.pc = "Added", !.addErr = r.err])

TaskDel(c) ==
    /\ \A d \in DOMAIN procs : procs[d].pc # "ToAdd"
    /\ procs[c].pc = "Added"
    /\ \E r \in {Plugin_Del(impl, World, NoFault, procs[c].cfg, procs[c].args)} :
          TaskCommit("DEL", c, r, [procs[c] EXCEPT !.pc = "Deleted", !.delErr = r.err])

NextTask ==
    \E c \in Containers :
        \/ TaskAdd(c)
        \/ TaskDel(c)

SpecTask == InitTask /\ [][NextTask]_vars

\* Every container of the task has been ADDed, and every ADD succeeded.
TaskAdded ==
    \A c \in DOMAIN procs : procs[c].pc # "ToAdd" /\ procs[c].addErr = Nil

TaskDeleted == \A c \in DOMAIN procs : procs[c].pc = "Deleted"

\* C33: once the containers of a task have all been ADDed with success,
\* every DEL of one of them returns success, and when all of them have been
\* DELed neither the network of the task nor an endpoint on it is left in
\* HNS, whatever the netns of the containers and the order of the DELs.
C33_TeardownSucceedsAndLeavesNothing ==
    TaskAdded =>
        /\ \A c \in DOMAIN procs : procs[c].pc = "Deleted" => procs[c].delErr = Nil
        /\ TaskDeleted =>
              /\ TaskNetwork \notin NetworkNames
              /\ \A e \in endpoints : e.VirtualNetworkName # TaskNetwork

----------------------------------------------------------------------------
\* Package netutils: the routes of the host.  A pointer is the empty
\* sequence when it is nil and <<v>> when it points to v; a net.IP is the
\* sequence of its bytes; a command is the sequence of the program that is
\* run and its arguments.

routeCommand == <<"route">>
routeAddCommand == <<"add">>
routeDeleteCommand == <<"delete">>
routeCommandMask == <<"mask">>
routeCommandInterface == <<"if">>

\* net.IP.String: the dotted form of the bytes, "<nil>" for no bytes.
IPString(ip) ==
    IF Len(ip) = 0 THEN <<"<nil>">>
    ELSE [k \in 1..(2 * Len(ip) - 1) |->
             IF k % 2 = 1 THEN ToString(ip[(k + 1) \div 2]) ELSE "."]

\* The interface number is converted with string(int): the text is the one
\* character of that code point, not the decimal digits of the number.
generateCommandArgs(destination, subnetMask, gateway, interfaceNum) ==
    <<routeDeleteCommand, IPString(destination[1]), routeCommandMask,
      IPString(subnetMask[1])>>
    \o (IF gateway # << >> THEN <<IPString(gateway[1])>> ELSE << >>)
    \o (IF interfaceNum # << >>
        THEN <<routeCommandInterface, <<"rune", ToString(interfaceNum[1])>>>>
        ELSE << >>)

\* AddRoute, with run the result of running the command.
netUtils_AddRoute(destination, subnetMask, gateway, interfaceNum, run) ==
    IF destination = << >> \/ subnetMask = << >> \/ gateway = << >>
    THEN [err |-> "InvalidArguments", commands |-> << >>]
    ELSE [err |-> run,
          commands |-> <<<<routeAddCommand>>
                         \o generateCommandArgs(destination, subnetMask, gateway,
                                                interfaceNum)>>]

\* DeleteRoute, with run the result of running the command.
netUtils_DeleteRoute(destination, subnetMask, gateway, run) ==
    IF destination = << >> \/ subnetMask = << >>
    THEN [err |-> "InvalidArguments", commands |-> << >>]
    ELSE [err |-> run,
          commands |-> <<<<routeCommand>>
                         \o generateCommandArgs(destination, subnetMask, gateway, << >>)>>]

\* The arguments of the calls: procs holds them, last what the last call
\* did.
InitRoute ==
    /\ impl = "netBuilder"
    /\ networks = {}
    /\ endpoints = {}
    /\ nsEndpoints = << >>
    /\ ifaces = << >>
    /\ last = [op |-> "none", err |-> Nil, commands |-> << >>]
    /\ \E destination \in {<< >>, <<<<10, 0, 0, 0>>>>, <<<<192, 168, 1, 0>>>>} :
       \E subnetMask \in {<< >>, <<<<255, 255, 255, 0>>>>, <<<<255, 0, 0, 0>>>>} :
       \E gateway \in {<< >>, <<<<10, 0, 0, 1>>>>} :
       \E interfaceNum \in {<< >>} \cup {<<n>> : n \in {1, 12}} :
          procs = [destination |-> destination, subnetMask |-> subnetMask,
                   gateway |-> gateway, interfaceNum |-> interfaceNum]

AddRoute ==
    /\ \E run \in {Nil, "ExitError"} :
          last' = [op |-> "AddRoute"] @@
                  netUtils_AddRoute(procs.destination, procs.subnetMask, procs.gateway,
                                    procs.interfaceNum, run)
    /\ UNCHANGED <<impl, networks, endpoints, nsEndpoints, ifaces, procs>>

DeleteRoute ==
    /\ \E run \in {Nil, "ExitError"} :
          last' = [op |-> "DeleteRoute"] @@
                  netUtils_DeleteRoute(procs.destination, procs.subnetMask, procs.gateway,
                                       run)
    /\ UNCHANGED <<impl, networks, endpoints, nsEndpoints, ifaces, procs>>

NextRoute ==
    \/ AddRoute
    \/ DeleteRoute

SpecRoute == InitRoute /\ [][NextRoute]_vars

\* The one command the last call has run is the route command with verb,
\* then the destination, the mask keyword, the mask and, in n further
\* arguments, what else the call was given.
RanRoute(verb, n) ==
    /\ Len(last.commands) = 1
    /\ Len(last.commands[1]) = 5 + n
    /\ SubSeq(last.commands[1], 1, 5) =
          <<routeCommand, verb, IPString(procs.destination[1]), routeCommandMask,
            IPString(procs.subnetMask[1])>>
    /\ procs.gateway # << >> => last.commands[1][6] = IPString(procs.gateway[1])

RanNothing == last.err # Nil /\ last.commands = << >>

\* C34: AddRoute given a destination, a mask and a gateway runs the route
\* command with the add verb, the destination, the mask keyword, the mask,
\* the gateway and the interface if there is one; DeleteRoute given a
\* destination and a mask runs the route command with the delete verb; given
\* less, each returns an error and runs no command.
C34_RouteCommands ==
    /\ last.op = "AddRoute" =>
          IF procs.destination = << >> \/ procs.subnetMask = << >> \/ procs.gateway = << >>
          THEN RanNothing
          ELSE RanRoute(<<"add">>, IF procs.interfaceNum = << >> THEN 1 ELSE 3)
    /\ last.op = "DeleteRoute" =>
          IF procs.destination = << >> \/ procs.subnetMask = << >>
          THEN RanNothing
          ELSE RanRoute(<<"delete">>, IF procs.gateway = << >> THEN 0 ELSE 1)

=============================================================================
